---- MODULE Spec2Model ----
(***************************************************************************)
(* SkillLedger: the skill scoring engine (backend/utils/skillScoring.js),  *)
(* the Mongoose models it reads and writes, and the Express routes that     *)
(* mutate evidence and trigger updateAllSkillScores.                        *)
(*                                                                          *)
(* Numbers.  JavaScript numbers are modelled as exact rationals <<n, d>>    *)
(* with d > 0 (Math.round, Math.min, Math.max and the comparisons are the   *)
(* exact ones).  Time is counted in whole days.                             *)
(*                                                                          *)
(* Documents.  A Mongoose document loaded by findById is a snapshot; save() *)
(* writes the modified paths only.  Every route is split at the point where *)
(* it stops reading and starts writing, and updateAllSkillScores is split   *)
(* between its reads (lines 243-253) and its save (lines 256-257).          *)
(***************************************************************************)
EXTENDS Integers, Sequences, FiniteSets, TLC

(***************************************************************************)
(* Exact rational arithmetic                                                *)
(***************************************************************************)
RECURSIVE GCD(_, _)
GCD(a, b) == IF b = 0 THEN a ELSE GCD(b, a % b)

Abs(n) == IF n < 0 THEN -n ELSE n

Q(n, d) ==
  LET g == GCD(Abs(n), d) IN
  IF n = 0 THEN <<0, 1>> ELSE <<n \div g, d \div g>>

QInt(n) == <<n, 1>>
QAdd(a, b) == Q(a[1] * b[2] + b[1] * a[2], a[2] * b[2])
QSub(a, b) == Q(a[1] * b[2] - b[1] * a[2], a[2] * b[2])
QMul(a, b) == Q(a[1] * b[1], a[2] * b[2])
QDiv(a, b) == Q(a[1] * b[2], a[2] * b[1])
QLe(a, b) == a[1] * b[2] <= b[1] * a[2]
QLt(a, b) == a[1] * b[2] < b[1] * a[2]
QMin(a, b) == IF QLe(a, b) THEN a ELSE b
QMax(a, b) == IF QLe(a, b) THEN b ELSE a
\* Math.round: the nearest integer, halves rounded up
QRound(a) == (2 * a[1] + a[2]) \div (2 * a[2])

(***************************************************************************)
(* Identifiers                                                              *)
(***************************************************************************)
UserIds == {"u1", "u2", "u3"}
Actors == {"u1", "u2"}
SkillIds == {"s1", "s2", "s9"}
ChallengeIds == {"c1", "c2", "c3", "c0"}
Slots == {"r1", "r2"}
NoDoc == [absent |-> TRUE]
Levels == {"beginner", "intermediate", "advanced", "expert"}

(***************************************************************************)
(* skillScoring.js: configuration                                           *)
(***************************************************************************)
ChallengePassed == 40
ChallengeScoreWeight == 30
ChallengeRecency == 20
EndorsementLevel == 50
EndorsementWeight == 30
EndorsementCount == 20
ProficiencyBase == 25
ProficiencyLevel == 50
ProficiencyExperience == 25

LEVEL_VALUES(level) ==
  CASE level = "beginner" -> 1
    [] level = "intermediate" -> 2
    [] level = "advanced" -> 3
    [] level = "expert" -> 4
    [] OTHER -> 1

DIFFICULTY_MULTIPLIERS(difficulty) ==
  CASE difficulty = "easy" -> <<1, 1>>
    [] difficulty = "medium" -> <<3, 2>>
    [] difficulty = "hard" -> <<2, 1>>
    [] difficulty = "expert" -> <<3, 1>>
    [] OTHER -> <<1, 1>>

\* the value a calculator "returns" when it throws
Thrown == <<0, 0>>

\* Array.prototype.find on user.skills: the index of the first record of the
\* skill, 0 when there is none
FindSkill(skills, skillId) ==
  IF \E i \in 1..Len(skills) : skills[i].skill = skillId
  THEN CHOOSE i \in 1..Len(skills) :
         /\ skills[i].skill = skillId
         /\ \A j \in 1..(i - 1) : skills[j].skill # skillId
  ELSE 0

(***************************************************************************)
(* skillScoring.js: the evidence calculators.  Each takes the collections   *)
(* it queries.                                                              *)
(***************************************************************************)
RECURSIVE ChallengeTotals(_, _, _, _, _)
\* the loop of lines 120-143: <<totalScore, maxPossibleScore>>
ChallengeTotals(subs, chals, skillId, today, i) ==
  IF i > Len(subs) THEN <<QInt(0), QInt(0)>>
  ELSE
    LET rest == ChallengeTotals(subs, chals, skillId, today, i + 1)
        submission == subs[i]
        challenge == chals[submission.challenge]
    IN IF challenge.skill # skillId THEN rest
       ELSE
         LET difficultyMultiplier == DIFFICULTY_MULTIPLIERS(challenge.difficulty)
             base == QAdd(QInt(ChallengePassed),
                          QMul(Q(submission.score, 100), QInt(ChallengeScoreWeight)))
             withDifficulty == QMul(base, difficultyMultiplier)
             daysSinceSubmission == today - submission.submittedAt
             recencyFactor == QMax(QInt(0), QSub(QInt(1), Q(daysSinceSubmission, 365)))
             score == QAdd(withDifficulty, QMul(recencyFactor, QInt(ChallengeRecency)))
         IN <<QAdd(rest[1], score),
              QAdd(rest[2], QMul(QInt(100), difficultyMultiplier))>>

\* variant: every submission of the skill adds 100 to the maximum, whatever
\* its difficulty
calculateChallengeScoreFlatMaximum(subsColl, chals, today, userId, skillId) ==
  LET subs == SelectSeq(subsColl,
                LAMBDA s : s.user = userId /\ s.isVerified /\ s.isPassed)
  IN IF Len(subs) = 0 THEN QInt(0)
     ELSE IF \E i \in 1..Len(subs) : chals[subs[i].challenge] = NoDoc
     THEN Thrown
     ELSE LET t == ChallengeTotals(subs, chals, skillId, today, 1)
              counted == SelectSeq(subs, LAMBDA s : chals[s.challenge].skill = skillId)
          IN IF Len(counted) > 0
             THEN QMin(QMul(QDiv(t[1], QInt(100 * Len(counted))), QInt(100)), QInt(100))
             ELSE QInt(0)

calculateChallengeScore(subsColl, chals, today, userId, skillId) ==
  LET subs == SelectSeq(subsColl,
                LAMBDA s : s.user = userId /\ s.isVerified /\ s.isPassed)
  IN IF Len(subs) = 0 THEN QInt(0)
     ELSE IF \E i \in 1..Len(subs) : chals[subs[i].challenge] = NoDoc
     THEN Thrown
     ELSE LET t == ChallengeTotals(subs, chals, skillId, today, 1)
          IN IF QLt(QInt(0), t[2])
             THEN QMin(QMul(QDiv(t[1], t[2]), QInt(100)), QInt(100))
             ELSE QInt(0)

RECURSIVE EndorsementTotals(_, _, _)
\* the loop of lines 166-174: <<totalLevelScore, totalWeightScore>>
EndorsementTotals(ends, usersColl, i) ==
  IF i > Len(ends) THEN <<0, QInt(0)>>
  ELSE
    LET rest == EndorsementTotals(ends, usersColl, i + 1)
        endorsement == ends[i]
        levelValue == LEVEL_VALUES(endorsement.level)
        endorserCredibility == usersColl[endorsement.endorser].credibilityScore
    IN <<rest[1] + levelValue,
         QAdd(rest[2], QMul(QInt(endorserCredibility), endorsement.weight))>>

\* variant: revoked endorsements are read as well
calculateEndorsementScoreAll(endsColl, usersColl, userId, skillId) ==
  LET ends == SelectSeq(endsColl,
                LAMBDA e : e.recipient = userId /\ e.skill = skillId)
  IN IF Len(ends) = 0 THEN QInt(0)
     ELSE IF \E i \in 1..Len(ends) : usersColl[ends[i].endorser] = NoDoc
     THEN Thrown
     ELSE LET t == EndorsementTotals(ends, usersColl, 1)
              maxLevelScore == Len(ends) * 4
              maxWeightScore == Len(ends) * 100
              normalizedLevel == QMul(Q(t[1], maxLevelScore), QInt(EndorsementLevel))
              normalizedWeight == QMul(QDiv(t[2], QInt(maxWeightScore)),
                                       QInt(EndorsementWeight))
              countBonus == IF Len(ends) * 2 < EndorsementCount
                            THEN Len(ends) * 2 ELSE EndorsementCount
          IN QMin(QAdd(QAdd(normalizedLevel, normalizedWeight), QInt(countBonus)),
                  QInt(100))

\* variant: the count bonus is dropped once it would pass its cap
calculateEndorsementScoreBonusLost(endsColl, usersColl, userId, skillId) ==
  LET ends == SelectSeq(endsColl,
                LAMBDA e : e.recipient = userId /\ e.skill = skillId /\ e.isValid)
  IN IF Len(ends) = 0 THEN QInt(0)
     ELSE IF \E i \in 1..Len(ends) : usersColl[ends[i].endorser] = NoDoc
     THEN Thrown
     ELSE LET t == EndorsementTotals(ends, usersColl, 1)
              maxLevelScore == Len(ends) * 4
              maxWeightScore == Len(ends) * 100
              normalizedLevel == QMul(Q(t[1], maxLevelScore), QInt(EndorsementLevel))
              normalizedWeight == QMul(QDiv(t[2], QInt(maxWeightScore)),
                                       QInt(EndorsementWeight))
              countBonus == IF Len(ends) * 2 <= EndorsementCount
                            THEN Len(ends) * 2 ELSE 0
          IN QMin(QAdd(QAdd(normalizedLevel, normalizedWeight), QInt(countBonus)),
                  QInt(100))

\* variant: the count bonus is one point for each endorsement
calculateEndorsementScoreSingleBonus(endsColl, usersColl, userId, skillId) ==
  LET ends == SelectSeq(endsColl,
                LAMBDA e : e.recipient = userId /\ e.skill = skillId /\ e.isValid)
  IN IF Len(ends) = 0 THEN QInt(0)
     ELSE IF \E i \in 1..Len(ends) : usersColl[ends[i].endorser] = NoDoc
     THEN Thrown
     ELSE LET t == EndorsementTotals(ends, usersColl, 1)
              maxLevelScore == Len(ends) * 4
              maxWeightScore == Len(ends) * 100
              normalizedLevel == QMul(Q(t[1], maxLevelScore), QInt(EndorsementLevel))
              normalizedWeight == QMul(QDiv(t[2], QInt(maxWeightScore)),
                                       QInt(EndorsementWeight))
              countBonus == IF Len(ends) < EndorsementCount
                            THEN Len(ends) ELSE EndorsementCount
          IN QMin(QAdd(QAdd(normalizedLevel, normalizedWeight), QInt(countBonus)),
                  QInt(100))

calculateEndorsementScore(endsColl, usersColl, userId, skillId) ==
  LET ends == SelectSeq(endsColl,
                LAMBDA e : e.recipient = userId /\ e.skill = skillId /\ e.isValid)
  IN IF Len(ends) = 0 THEN QInt(0)
     ELSE IF \E i \in 1..Len(ends) : usersColl[ends[i].endorser] = NoDoc
     THEN Thrown
     ELSE LET t == EndorsementTotals(ends, usersColl, 1)
              maxLevelScore == Len(ends) * 4
              maxWeightScore == Len(ends) * 100
              normalizedLevel == QMul(Q(t[1], maxLevelScore), QInt(EndorsementLevel))
              normalizedWeight == QMul(QDiv(t[2], QInt(maxWeightScore)),
                                       QInt(EndorsementWeight))
              countBonus == IF Len(ends) * 2 < EndorsementCount
                            THEN Len(ends) * 2 ELSE EndorsementCount
          IN QMin(QAdd(QAdd(normalizedLevel, normalizedWeight), QInt(countBonus)),
                  QInt(100))

\* variant: the experience bonus is not capped at ten years
calculateProficiencyScoreUncapped(usersColl, userId, skillId) ==
  IF usersColl[userId] = NoDoc THEN QInt(0)
  ELSE LET skills == usersColl[userId].skills
           k == FindSkill(skills, skillId)
       IN IF k = 0 THEN QInt(0)
          ELSE LET userSkill == skills[k]
                   score == QAdd(QAdd(QInt(ProficiencyBase),
                                      QMul(Q(userSkill.proficiencyLevel, 10),
                                           QInt(ProficiencyLevel))),
                                 QMul(Q(userSkill.yearsOfExperience, 10),
                                      QInt(ProficiencyExperience)))
               IN QMin(score, QInt(100))

calculateProficiencyScore(usersColl, userId, skillId) ==
  IF usersColl[userId] = NoDoc THEN QInt(0)
  ELSE LET skills == usersColl[userId].skills
           k == FindSkill(skills, skillId)
       IN IF k = 0 THEN QInt(0)
          ELSE LET userSkill == skills[k]
                   years == IF userSkill.yearsOfExperience < 10
                            THEN userSkill.yearsOfExperience ELSE 10
                   score == QAdd(QAdd(QInt(ProficiencyBase),
                                      QMul(Q(userSkill.proficiencyLevel, 10),
                                           QInt(ProficiencyLevel))),
                                 QMul(Q(years, 10), QInt(ProficiencyExperience)))
               IN QMin(score, QInt(100))

\* variant: the decay is floored at 0
calculateTimeDecayUnfloored(usersColl, today, userId, skillId) ==
  IF usersColl[userId] = NoDoc THEN QInt(1)
  ELSE LET skills == usersColl[userId].skills
           k == FindSkill(skills, skillId)
       IN IF k = 0 THEN QInt(1)
          ELSE LET daysSinceUpdate == today - skills[k].lastUpdated
                   decay == QSub(QInt(1), Q(daysSinceUpdate - 90, 365 * 2))
               IN IF daysSinceUpdate < 90 THEN QInt(1)
                  ELSE QMax(QInt(0), QMin(decay, QInt(1)))

calculateTimeDecay(usersColl, today, userId, skillId) ==
  IF usersColl[userId] = NoDoc THEN QInt(1)
  ELSE LET skills == usersColl[userId].skills
           k == FindSkill(skills, skillId)
       IN IF k = 0 THEN QInt(1)
          ELSE LET daysSinceUpdate == today - skills[k].lastUpdated
                   decay == QSub(QInt(1), Q(daysSinceUpdate - 90, 365 * 2))
               IN IF daysSinceUpdate < 90 THEN QInt(1)
                  ELSE QMax(Q(1, 2), QMin(decay, QInt(1)))

ErrorResult ==
  [totalScore |-> 0, challengeScore |-> QInt(0), endorsementScore |-> QInt(0),
   proficiencyScore |-> QInt(0), decayFactor |-> QInt(1), isVerified |-> FALSE,
   error |-> TRUE]

\* variant: a calculator that throws counts as 0 and the rest is still scored
calculateSkillCredibilityPartial(usersColl, subsColl, endsColl, chals, today, userId, skillId) ==
  LET c == calculateChallengeScore(subsColl, chals, today, userId, skillId)
      e == calculateEndorsementScore(endsColl, usersColl, userId, skillId)
      challengeScore == IF c = Thrown THEN QInt(0) ELSE c
      endorsementScore == IF e = Thrown THEN QInt(0) ELSE e
      proficiencyScore == calculateProficiencyScore(usersColl, userId, skillId)
      decayFactor == calculateTimeDecay(usersColl, today, userId, skillId)
      weighted == QAdd(QAdd(QMul(challengeScore, Q(4, 10)),
                            QMul(endorsementScore, Q(35, 100))),
                       QMul(proficiencyScore, Q(25, 100)))
      totalScore == QRound(QMul(weighted, decayFactor))
  IN [totalScore |-> IF totalScore < 100 THEN totalScore ELSE 100,
      challengeScore |-> challengeScore,
      endorsementScore |-> endorsementScore,
      proficiencyScore |-> proficiencyScore,
      decayFactor |-> decayFactor,
      isVerified |-> QLe(QInt(30), challengeScore) \/ QLe(QInt(40), endorsementScore),
      error |-> c = Thrown \/ e = Thrown]

\* variant: the verification thresholds are tested on the decayed scores
calculateSkillCredibilityDecayedFlag(usersColl, subsColl, endsColl, chals, today, userId, skillId) ==
  LET challengeScore == calculateChallengeScore(subsColl, chals, today, userId, skillId)
      endorsementScore == calculateEndorsementScore(endsColl, usersColl, userId, skillId)
      proficiencyScore == calculateProficiencyScore(usersColl, userId, skillId)
      decayFactor == calculateTimeDecay(usersColl, today, userId, skillId)
  IN IF challengeScore = Thrown \/ endorsementScore = Thrown THEN ErrorResult
     ELSE
       LET weighted == QAdd(QAdd(QMul(challengeScore, Q(4, 10)),
                                 QMul(endorsementScore, Q(35, 100))),
                            QMul(proficiencyScore, Q(25, 100)))
           totalScore == QRound(QMul(weighted, decayFactor))
       IN [totalScore |-> IF totalScore < 100 THEN totalScore ELSE 100,
           challengeScore |-> challengeScore,
           endorsementScore |-> endorsementScore,
           proficiencyScore |-> proficiencyScore,
           decayFactor |-> decayFactor,
           isVerified |-> \/ QLe(QInt(30), QMul(challengeScore, decayFactor))
                          \/ QLe(QInt(40), QMul(endorsementScore, decayFactor)),
           error |-> FALSE]

\* variant: the proficiency score weighs 0.3
calculateSkillCredibilityHeavyProficiency(usersColl, subsColl, endsColl, chals, today, userId, skillId) ==
  LET challengeScore == calculateChallengeScore(subsColl, chals, today, userId, skillId)
      endorsementScore == calculateEndorsementScore(endsColl, usersColl, userId, skillId)
      proficiencyScore == calculateProficiencyScore(usersColl, userId, skillId)
      decayFactor == calculateTimeDecay(usersColl, today, userId, skillId)
  IN IF challengeScore = Thrown \/ endorsementScore = Thrown THEN ErrorResult
     ELSE
       LET weighted == QAdd(QAdd(QMul(challengeScore, Q(4, 10)),
                                 QMul(endorsementScore, Q(35, 100))),
                            QMul(proficiencyScore, Q(3, 10)))
           totalScore == QRound(QMul(weighted, decayFactor))
       IN [totalScore |-> IF totalScore < 100 THEN totalScore ELSE 100,
           challengeScore |-> challengeScore,
           endorsementScore |-> endorsementScore,
           proficiencyScore |-> proficiencyScore,
           decayFactor |-> decayFactor,
           isVerified |-> QLe(QInt(30), challengeScore) \/ QLe(QInt(40), endorsementScore),
           error |-> FALSE]

calculateSkillCredibility(usersColl, subsColl, endsColl, chals, today, userId, skillId) ==
  LET challengeScore == calculateChallengeScore(subsColl, chals, today, userId, skillId)
      endorsementScore == calculateEndorsementScore(endsColl, usersColl, userId, skillId)
      proficiencyScore == calculateProficiencyScore(usersColl, userId, skillId)
      decayFactor == calculateTimeDecay(usersColl, today, userId, skillId)
  IN IF challengeScore = Thrown \/ endorsementScore = Thrown THEN ErrorResult
     ELSE
       LET weighted == QAdd(QAdd(QMul(challengeScore, Q(4, 10)),
                                 QMul(endorsementScore, Q(35, 100))),
                            QMul(proficiencyScore, Q(25, 100)))
           totalScore == QRound(QMul(weighted, decayFactor))
       IN [totalScore |-> IF totalScore < 100 THEN totalScore ELSE 100,
           challengeScore |-> challengeScore,
           endorsementScore |-> endorsementScore,
           proficiencyScore |-> proficiencyScore,
           decayFactor |-> decayFactor,
           isVerified |-> QLe(QInt(30), challengeScore) \/ QLe(QInt(40), endorsementScore),
           error |-> FALSE]

(***************************************************************************)
(* User.js: updateCredibilityScore on the in-memory skills array, and the   *)
(* exported calculateOverallCredibility of skillScoring.js                  *)
(***************************************************************************)
RECURSIVE SumOver(_, _, _)
\* sum of f(skills[j]) for j = i..Len(skills)
SumOver(skills, f(_), i) ==
  IF i > Len(skills) THEN 0 ELSE f(skills[i]) + SumOver(skills, f, i + 1)

MethodWeight(userSkill) == userSkill.proficiencyLevel * userSkill.yearsOfExperience + 1
MethodWeighted(userSkill) == userSkill.credibilityScore * MethodWeight(userSkill)

\* variant: the weighted sum divided by the number of skills
updateCredibilityScorePerSkill(skills) ==
  IF Len(skills) = 0 THEN 0
  ELSE QRound(Q(SumOver(skills, MethodWeighted, 1), Len(skills)))

updateCredibilityScore(skills) ==
  IF Len(skills) = 0 THEN 0
  ELSE QRound(Q(SumOver(skills, MethodWeighted, 1), SumOver(skills, MethodWeight, 1)))

ExportWeight(userSkill) == userSkill.proficiencyLevel * (userSkill.yearsOfExperience + 1)
ExportWeighted(userSkill) == userSkill.credibilityScore * ExportWeight(userSkill)

calculateOverallCredibility(usersColl, userId) ==
  IF usersColl[userId] = NoDoc \/ Len(usersColl[userId].skills) = 0 THEN 0
  ELSE QRound(Q(SumOver(usersColl[userId].skills, ExportWeighted, 1),
                SumOver(usersColl[userId].skills, ExportWeight, 1)))

(***************************************************************************)
(* Endorsement.js: pre('save').  `modified` is the set of modified paths.   *)
(* this.constructor is the Endorsement model; called with the string        *)
(* 'User' it constructs an Endorsement document from a non-object, which    *)
(* Mongoose rejects, so the lookup of line 100 throws whenever it is        *)
(* reached and the save fails.  The value is the weight to store, or Thrown.*)
(***************************************************************************)
\* variant: the weight is derived from the endorser on every save
endorsementPreSaveAlways(doc, modified, usersColl) ==
  IF usersColl[doc.endorser] = NoDoc THEN doc.weight
  ELSE QMin(QAdd(Q(1, 2), Q(usersColl[doc.endorser].credibilityScore, 200)), QInt(1))

endorsementPreSave(doc, modified, usersColl) ==
  IF "endorser" \in modified \/ "weight" \in modified
  THEN Thrown
  ELSE doc.weight

\* Endorsement schema: weight has min 0 and max 1 (validation precedes the hook)
WeightValid(w) == QLe(QInt(0), w) /\ QLe(w, QInt(1))

(***************************************************************************)
(* Submission.js: pre('save'); challenges.js: evaluateTestCases             *)
(***************************************************************************)
DefaultPassMark == 70

\* variant: the default pass mark is applied on every save
submissionPreSaveAlways(doc, modified) ==
  IF doc.challenge # "none"
  THEN [doc EXCEPT !.isPassed = (doc.score >= DefaultPassMark)]
  ELSE doc

submissionPreSave(doc, modified) ==
  IF "score" \in modified /\ doc.challenge # "none"
  THEN [doc EXCEPT !.isPassed = (doc.score >= DefaultPassMark)]
  ELSE doc

\* every test case counts as passed (line 342), so passedCount = testCases.length
evaluateTestCases(numTests) == QRound(QMul(Q(numTests, numTests), QInt(100)))

(***************************************************************************)
(* Bounds and inputs                                                        *)
(***************************************************************************)
MaxAdmitted == 2
MaxSubs == 2
MaxDay == 500
MaxAge == 460
MaxEndorsers == 11
DayStep == 400

\* The requests that clients send, per route
SkillBody(actor, s, p, y, given) ==
  [actor |-> actor, skill |-> s, proficiencyLevel |-> p,
   yearsOfExperience |-> y, hasYears |-> given]

PostUsersSkillsRequests ==
  { SkillBody("u1", "s1", 10, 0, FALSE),
    SkillBody("u1", "s2", 1, 12, TRUE),
    SkillBody("u2", "s2", 5, 3, TRUE),
    SkillBody("u2", "s9", 5, 3, TRUE) }

PutUsersSkillsRequests ==
  { SkillBody("u1", "s1", 10, 0, TRUE),
    SkillBody("u1", "s1", 5, 0, FALSE),
    SkillBody("u1", "s2", 1, 12, TRUE),
    SkillBody("u2", "s1", 10, 0, TRUE) }

DeleteUsersSkillsRequests ==
  { [actor |-> "u1", skill |-> "s1"],
    [actor |-> "u1", skill |-> "s2"],
    [actor |-> "u2", skill |-> "s1"] }

\* "none" is an omitted level or comment, NoWeight an omitted weight
NoWeight == <<0, 0>>

\* PUT /api/users/profile: the last request has an empty first name
PutUsersProfileRequests ==
  { [actor |-> "u1", firstName |-> "Bea"],
    [actor |-> "u2", firstName |-> "Bea"],
    [actor |-> "u1", firstName |-> ""] }

EndorsementBody(actor, recipient, s, level, weight) ==
  [actor |-> actor, recipient |-> recipient, skill |-> s, level |-> level,
   weight |-> weight]

PostEndorsementsRequests ==
  { EndorsementBody("u2", "u1", "s1", "expert", NoWeight),
    EndorsementBody("u2", "u1", "s2", "advanced", <<1, 2>>),
    EndorsementBody("u1", "u1", "s1", "expert", NoWeight),
    EndorsementBody("u1", "u2", "s1", "beginner", <<2, 1>>),
    EndorsementBody("u2", "u3", "s1", "expert", NoWeight) }

PutEndorsementsBodies ==
  { [level |-> "none", comment |-> "none", weight |-> NoWeight],
    [level |-> "beginner", comment |-> "none", weight |-> NoWeight],
    [level |-> "none", comment |-> "thanks", weight |-> NoWeight],
    [level |-> "beginner", comment |-> "none", weight |-> <<1, 2>>],
    [level |-> "none", comment |-> "none", weight |-> <<2, 1>>] }

PostChallengesSubmitRequests ==
  { [actor |-> "u1", challenge |-> "c1"],
    [actor |-> "u1", challenge |-> "c2"],
    [actor |-> "u1", challenge |-> "c3"],
    [actor |-> "u1", challenge |-> "c0"],
    [actor |-> "u2", challenge |-> "c1"] }

SkillRec(s, p, y) ==
  [skill |-> s, proficiencyLevel |-> p, yearsOfExperience |-> y,
   isVerified |-> FALSE, credibilityScore |-> 0, lastUpdated |-> 0]

EndRec(from, to, s, lv, w) ==
  [endorser |-> from, recipient |-> to, skill |-> s, level |-> lv,
   comment |-> "", weight |-> w, isValid |-> TRUE]

SubRec(u, c, sc, passed, verified, n, at) ==
  [user |-> u, challenge |-> c, score |-> sc, isPassed |-> passed,
   isVerified |-> verified, attemptNumber |-> n, submittedAt |-> at]

\* skill lists a student may start with (records as POST /api/users/skills
\* creates them: no score yet)
U1SkillSeeds ==
  { <<>>,
    <<SkillRec("s1", 5, 3)>>,
    <<SkillRec("s1", 10, 0), SkillRec("s2", 1, 12)>> }
U2SkillSeeds == { <<SkillRec("s1", 5, 3)>> }

\* endorsement collections the store may hold; each record is one that
\* POST /api/endorsements admits (recipient owns the skill, one valid
\* endorsement per endorser, recipient and skill)
EndorsementSeeds ==
  { <<>>,
    <<EndRec("u2", "u1", "s1", "expert", <<1, 2>>)>>,
    <<EndRec("u2", "u1", "s1", "advanced", <<9, 10>>),
      EndRec("u1", "u2", "s1", "intermediate", <<1, 2>>)>>,
    <<EndRec("u1", "u1", "s1", "expert", <<1, 2>>)>>,
    <<EndRec("u3", "u1", "s1", "expert", <<1, 2>>)>> }

\* submissions the store may hold; challenge c0 has no record any more
SubmissionSeeds ==
  { <<>>, <<SubRec("u1", "c0", 100, TRUE, TRUE, 1, 0)>> }

ChallengeSeed ==
  [c \in ChallengeIds |->
     CASE c = "c1" -> [skill |-> "s1", difficulty |-> "medium",
                       passingScore |-> 70, testCases |-> 1]
       [] c = "c2" -> [skill |-> "s2", difficulty |-> "easy",
                       passingScore |-> 0, testCases |-> 0]
       [] c = "c3" -> [skill |-> "s1", difficulty |-> "hard",
                       passingScore |-> 70, testCases |-> 0]
       [] OTHER -> NoDoc]

RECURSIVE CountSeq(_, _, _)
CountSeq(seq, P(_), i) ==
  IF i > Len(seq) THEN 0
  ELSE (IF P(seq[i]) THEN 1 ELSE 0) + CountSeq(seq, P, i + 1)

UserSeed(u, skills, ends, subs) ==
  [skills |-> skills,
   credibilityScore |-> 0,
   role |-> "student",
   profile |-> [firstName |-> "Ann"],
   totalChallengesAttempted |-> CountSeq(subs, LAMBDA s : s.user = u, 1),
   totalChallengesPassed |-> CountSeq(subs, LAMBDA s : s.user = u /\ s.isPassed, 1),
   totalEndorsementsReceived |-> CountSeq(ends, LAMBDA e : e.recipient = u /\ e.isValid, 1),
   ver |-> 0]

(***************************************************************************)
(* State                                                                    *)
(***************************************************************************)
VARIABLES
  users,         \* User collection: id -> document or NoDoc
  skillDocs,     \* Skill collection: id -> [totalUsers] or NoDoc
  challenges,    \* Challenge collection: id -> document or NoDoc
  submissions,   \* Submission collection, in insertion order
  endorsements,  \* Endorsement collection, in insertion order; the index is the id
  now,           \* Date.now(), in days
  reqs,          \* the requests being handled, one per slot
  admitted,      \* number of requests that passed their route's checks
  mode           \* "serial": one request at a time; "concurrent": overlapping

vars == <<users, skillDocs, challenges, submissions, endorsements, now, reqs, admitted, mode>>

db == <<users, skillDocs, challenges, submissions, endorsements>>

BlankReq ==
  [kind |-> "none", pc |-> "idle", actor |-> "none", target |-> "none",
   skill |-> "none", prof |-> 0, years |-> 0, hasYears |-> FALSE,
   level |-> "none", comment |-> "none", weight |-> NoWeight,
   firstName |-> "none", id |-> 0, challenge |-> "none",
   doc |-> NoDoc, edoc |-> NoDoc, count |-> 0,
   results |-> <<>>, at |-> 0, ok |-> 0,
   status |-> 0, recomputed |-> "none"]

InProgress(r) == reqs[r].pc \notin {"idle", "done"}
Quiescent == \A r \in Slots : ~InProgress(r)
AllIdle == \A r \in Slots : reqs[r].pc = "idle"

\* a request can be received in slot r
CanArrive(r) ==
  /\ admitted < MaxAdmitted
  /\ reqs[r].pc = "idle"
  /\ IF mode = "serial" THEN r = "r1" /\ AllIdle ELSE TRUE

\* the handler returns with a status code; what remains of the request is
\* who asked, for whom, and whether updateAllSkillScores has saved
Finish(r, code) ==
  [BlankReq EXCEPT !.kind = reqs[r].kind, !.pc = "done", !.actor = reqs[r].actor,
                   !.target = reqs[r].target, !.skill = reqs[r].skill,
                   !.id = reqs[r].id, !.status = code]

\* a request turned away by its route's checks
Reject(req, code) ==
  [BlankReq EXCEPT !.kind = req.kind, !.pc = "done", !.actor = req.actor,
                   !.target = req.target, !.skill = req.skill, !.id = req.id,
                   !.status = code]

\* counts the request of slot r once it has passed the checks
Admit(r) ==
  admitted' = IF reqs'[r].pc = "done" THEN admitted ELSE admitted + 1

HasSeedSkills(ends, u1Skills, u2Skills) ==
  \A i \in 1..Len(ends) :
    LET owned == IF ends[i].recipient = "u1" THEN u1Skills ELSE u2Skills
    IN FindSkill(owned, ends[i].skill) # 0

InitDb ==
  \E u1Skills \in U1SkillSeeds, u2Skills \in U2SkillSeeds,
     ends \in EndorsementSeeds, subs \in SubmissionSeeds :
    /\ HasSeedSkills(ends, u1Skills, u2Skills)
    /\ users = [u \in UserIds |->
                  CASE u = "u1" -> UserSeed(u, u1Skills, ends, subs)
                    [] u = "u2" -> UserSeed(u, u2Skills, ends, subs)
                    [] OTHER -> NoDoc]
    /\ endorsements = ends
    /\ submissions = subs
    /\ skillDocs = [s \in SkillIds |-> IF s = "s9" THEN NoDoc ELSE [totalUsers |-> 0]]
    /\ challenges = ChallengeSeed
    /\ now = 0
    /\ reqs = [r \in Slots |-> BlankReq]
    /\ admitted = 0

Init == InitDb /\ mode = "serial"

(***************************************************************************)
(* users.js: POST /api/users/skills                                         *)
(***************************************************************************)
PostUsersSkills(r, body) ==
  /\ CanArrive(r)
  /\ LET actor == body.actor
         skillId == body.skill
         req == [BlankReq EXCEPT !.kind = "postSkill", !.actor = actor,
                   !.skill = skillId, !.prof = body.proficiencyLevel,
                   !.years = IF body.hasYears THEN body.yearsOfExperience ELSE 0]
     IN reqs' = [reqs EXCEPT ![r] =
          IF skillDocs[skillId] = NoDoc THEN Reject(req, 404)
          ELSE IF FindSkill(users[actor].skills, skillId) # 0 THEN Reject(req, 400)
          ELSE [req EXCEPT !.pc = "postSkillSave", !.doc = users[actor],
                           !.count = skillDocs[skillId].totalUsers]]
  /\ Admit(r)
  /\ UNCHANGED <<db, now, mode>>

\* user.skills.push(...) is sent as $push, which increments __v without
\* testing it; skill.totalUsers is $set from the loaded value
PostUsersSkillsSave(r) ==
  /\ reqs[r].pc = "postSkillSave"
  /\ LET req == reqs[r]
         rec == [skill |-> req.skill, proficiencyLevel |-> req.prof,
                 yearsOfExperience |-> req.years, isVerified |-> FALSE,
                 credibilityScore |-> 0, lastUpdated |-> now]
     IN /\ users' = [users EXCEPT ![req.actor] =
                       [@ EXCEPT !.skills = Append(@, rec), !.ver = @ + 1]]
        /\ skillDocs' = [skillDocs EXCEPT ![req.skill] =
                           [@ EXCEPT !.totalUsers = req.count + 1]]
        /\ reqs' = [reqs EXCEPT ![r] = Finish(r, 201)]
  /\ UNCHANGED <<challenges, submissions, endorsements, now, admitted, mode>>

(***************************************************************************)
(* users.js: PUT /api/users/skills/:skillId                                 *)
(***************************************************************************)
PutUsersSkills(r, body) ==
  /\ CanArrive(r)
  /\ LET actor == body.actor
         skillId == body.skill
         req == [BlankReq EXCEPT !.kind = "putSkill", !.actor = actor,
                   !.skill = skillId, !.prof = body.proficiencyLevel,
                   !.years = body.yearsOfExperience, !.hasYears = body.hasYears]
     IN reqs' = [reqs EXCEPT ![r] =
          IF FindSkill(users[actor].skills, skillId) = 0 THEN Reject(req, 404)
          ELSE [req EXCEPT !.pc = "putSkillSave", !.doc = users[actor],
                           !.id = FindSkill(users[actor].skills, skillId)]]
  /\ Admit(r)
  /\ UNCHANGED <<db, now, mode>>

\* the modified paths are skills.<i>.*: save() tests __v and fails with a
\* VersionError when the array has changed since the document was loaded
PutUsersSkillsSave(r) ==
  /\ reqs[r].pc = "putSkillSave"
  /\ LET req == reqs[r]
         i == req.id
     IN IF users[req.actor].ver # req.doc.ver
        THEN /\ reqs' = [reqs EXCEPT ![r] = Finish(r, 500)]
             /\ UNCHANGED users
        ELSE /\ users' = [users EXCEPT ![req.actor].skills[i] =
                  [@ EXCEPT !.proficiencyLevel = req.prof,
                            !.yearsOfExperience =
                               IF req.hasYears THEN req.years ELSE @,
                            !.lastUpdated = now]]
             /\ reqs' = [reqs EXCEPT ![r] =
                  [req EXCEPT !.pc = "recompute", !.target = req.actor, !.ok = 200]]
  /\ UNCHANGED <<skillDocs, challenges, submissions, endorsements, now, admitted, mode>>

(***************************************************************************)
(* users.js: PUT /api/users/profile and GET /api/users/credibility          *)
(***************************************************************************)
PutUsersProfile(r, body) ==
  /\ CanArrive(r)
  /\ LET req == [BlankReq EXCEPT !.kind = "putProfile", !.actor = body.actor,
                   !.firstName = body.firstName]
     IN reqs' = [reqs EXCEPT ![r] =
          IF body.firstName = "" THEN Reject(req, 400)
          ELSE [req EXCEPT !.pc = "putProfileSave", !.doc = users[body.actor]]]
  /\ Admit(r)
  /\ UNCHANGED <<db, now, mode>>

\* variant: the request body is copied onto the user, scores included
PutUsersProfileSaveAssign(r) ==
  /\ reqs[r].pc = "putProfileSave"
  /\ users' = [users EXCEPT ![reqs[r].actor] =
                 [@ EXCEPT !.profile.firstName = reqs[r].firstName,
                           !.credibilityScore = 100]]
  /\ reqs' = [reqs EXCEPT ![r] = Finish(r, 200)]
  /\ UNCHANGED <<skillDocs, challenges, submissions, endorsements, now, admitted, mode>>

\* the modified path is profile.firstName
PutUsersProfileSave(r) ==
  /\ reqs[r].pc = "putProfileSave"
  /\ users' = [users EXCEPT ![reqs[r].actor].profile.firstName = reqs[r].firstName]
  /\ reqs' = [reqs EXCEPT ![r] = Finish(r, 200)]
  /\ UNCHANGED <<skillDocs, challenges, submissions, endorsements, now, admitted, mode>>

\* the stored scores are read and returned
GetUsersCredibility(r, actor) ==
  /\ CanArrive(r)
  /\ reqs' = [reqs EXCEPT ![r] =
       [BlankReq EXCEPT !.kind = "getCredibility", !.pc = "done", !.actor = actor,
                        !.status = 200]]
  /\ UNCHANGED <<db, now, admitted, mode>>

(***************************************************************************)
(* users.js: DELETE /api/users/skills/:skillId                              *)
(***************************************************************************)
DeleteUsersSkills(r, body) ==
  /\ CanArrive(r)
  /\ LET actor == body.actor
         skillId == body.skill
         req == [BlankReq EXCEPT !.kind = "deleteSkill", !.actor = actor,
                   !.skill = skillId]
     IN reqs' = [reqs EXCEPT ![r] =
          IF FindSkill(users[actor].skills, skillId) = 0 THEN Reject(req, 404)
          ELSE [req EXCEPT !.pc = "deleteSkillSave", !.doc = users[actor],
                           !.id = FindSkill(users[actor].skills, skillId)]]
  /\ Admit(r)
  /\ UNCHANGED <<db, now, mode>>

\* splice() is sent as a $set of the whole array as loaded; save() tests and
\* increments __v
DeleteUsersSkillsSave(r) ==
  /\ reqs[r].pc = "deleteSkillSave"
  /\ LET req == reqs[r]
         loaded == req.doc.skills
         spliced == [j \in 1..(Len(loaded) - 1) |->
                       IF j < req.id THEN loaded[j] ELSE loaded[j + 1]]
     IN IF users[req.actor].ver # req.doc.ver
        THEN /\ reqs' = [reqs EXCEPT ![r] = Finish(r, 500)]
             /\ UNCHANGED users
        ELSE /\ users' = [users EXCEPT ![req.actor] =
                  [@ EXCEPT !.skills = spliced, !.ver = @ + 1]]
             /\ reqs' = [reqs EXCEPT ![r] =
                  [req EXCEPT !.pc = "recompute", !.target = req.actor, !.ok = 200]]
  /\ UNCHANGED <<skillDocs, challenges, submissions, endorsements, now, admitted, mode>>

(***************************************************************************)
(* endorsements.js: POST /api/endorsements                                  *)
(***************************************************************************)
ExistingEndorsement(endorser, recipient, skillId) ==
  \E i \in 1..Len(endorsements) :
    /\ endorsements[i].endorser = endorser
    /\ endorsements[i].recipient = recipient
    /\ endorsements[i].skill = skillId
    /\ endorsements[i].isValid

PostEndorsements(r, body) ==
  /\ CanArrive(r)
  /\ LET actor == body.actor
         recipient == body.recipient
         skillId == body.skill
         req == [BlankReq EXCEPT !.kind = "postEndorsement", !.actor = actor,
                   !.target = recipient, !.skill = skillId, !.level = body.level,
                   !.weight = IF body.weight = NoWeight THEN QInt(1) ELSE body.weight]
     IN reqs' = [reqs EXCEPT ![r] =
          IF users[recipient] = NoDoc \/ users[recipient].role # "student"
          THEN Reject(req, 404)
          ELSE IF FindSkill(users[recipient].skills, skillId) = 0
          THEN Reject(req, 400)
          ELSE IF ExistingEndorsement(actor, recipient, skillId)
          THEN Reject(req, 400)
          ELSE [req EXCEPT !.pc = "postEndorsementSave", !.doc = users[recipient]]]
  /\ Admit(r)
  /\ UNCHANGED <<db, now, mode>>

\* Endorsement.create validates, runs the pre-save hook and inserts; then
\* recipientUser.totalEndorsementsReceived is $set from the loaded value
PostEndorsementsSave(r) ==
  /\ reqs[r].pc = "postEndorsementSave"
  /\ LET req == reqs[r]
         created == [endorser |-> req.actor, recipient |-> req.target,
                     skill |-> req.skill, level |-> req.level, comment |-> "",
                     weight |-> req.weight, isValid |-> TRUE]
         hooked == endorsementPreSave(created,
                                      {"endorser", "recipient", "skill", "level", "weight"},
                                      users)
     IN IF ~WeightValid(req.weight) \/ hooked = Thrown
        THEN /\ reqs' = [reqs EXCEPT ![r] = Finish(r, 500)]
             /\ UNCHANGED <<users, endorsements>>
        ELSE /\ endorsements' = Append(endorsements, [created EXCEPT !.weight = hooked])
             /\ users' = [users EXCEPT ![req.target].totalEndorsementsReceived =
                            req.doc.totalEndorsementsReceived + 1]
             /\ reqs' = [reqs EXCEPT ![r] = [req EXCEPT !.pc = "recompute", !.ok = 201]]
  /\ UNCHANGED <<skillDocs, challenges, submissions, now, admitted, mode>>

(***************************************************************************)
(* endorsements.js: PUT /api/endorsements/:endorsementId                    *)
(***************************************************************************)
PutEndorsements(r, actor, id, body) ==
  /\ CanArrive(r)
  /\ LET req == [BlankReq EXCEPT !.kind = "putEndorsement", !.actor = actor,
                   !.id = id, !.level = body.level, !.comment = body.comment,
                   !.weight = body.weight]
     IN reqs' = [reqs EXCEPT ![r] =
          IF id \notin 1..Len(endorsements) THEN Reject(req, 404)
          ELSE IF endorsements[id].endorser # actor THEN Reject(req, 403)
          ELSE [req EXCEPT !.pc = "putEndorsementSave", !.edoc = endorsements[id],
                           !.target = endorsements[id].recipient,
                           !.skill = endorsements[id].skill]]
  /\ Admit(r)
  /\ UNCHANGED <<db, now, mode>>

PutEndorsementsSave(r) ==
  /\ reqs[r].pc = "putEndorsementSave"
  /\ LET req == reqs[r]
         loaded == req.edoc
         edited == [loaded EXCEPT
                      !.level = IF req.level # "none" THEN req.level ELSE @,
                      !.comment = IF req.comment # "none" THEN req.comment ELSE @,
                      !.weight = IF req.weight # NoWeight THEN req.weight ELSE @]
         modified == {f \in {"level", "comment", "weight"} : edited[f] # loaded[f]}
         hooked == endorsementPreSave(edited, modified, users)
     IN IF ~WeightValid(edited.weight) \/ hooked = Thrown
        THEN /\ reqs' = [reqs EXCEPT ![r] = Finish(r, 500)]
             /\ UNCHANGED endorsements
        ELSE /\ endorsements' = [endorsements EXCEPT ![req.id] =
                  [@ EXCEPT !.level = IF "level" \in modified THEN edited.level ELSE @,
                            !.comment = IF "comment" \in modified THEN edited.comment ELSE @,
                            !.weight = IF hooked # loaded.weight THEN hooked ELSE @]]
             /\ reqs' = [reqs EXCEPT ![r] = [req EXCEPT !.pc = "recompute", !.ok = 200]]
  /\ UNCHANGED <<users, skillDocs, challenges, submissions, now, admitted, mode>>

(***************************************************************************)
(* endorsements.js: DELETE /api/endorsements/:endorsementId                 *)
(***************************************************************************)
\* variant: anyone may revoke an endorsement
DeleteEndorsementsAnyone(r, actor, id) ==
  /\ CanArrive(r)
  /\ LET req == [BlankReq EXCEPT !.kind = "deleteEndorsement", !.actor = actor,
                   !.id = id]
     IN reqs' = [reqs EXCEPT ![r] =
          IF id \notin 1..Len(endorsements) THEN Reject(req, 404)
          ELSE [req EXCEPT !.pc = "deleteEndorsementSave", !.edoc = endorsements[id],
                           !.target = endorsements[id].recipient,
                           !.skill = endorsements[id].skill]]
  /\ Admit(r)
  /\ UNCHANGED <<db, now, mode>>

DeleteEndorsements(r, actor, id) ==
  /\ CanArrive(r)
  /\ LET req == [BlankReq EXCEPT !.kind = "deleteEndorsement", !.actor = actor,
                   !.id = id]
     IN reqs' = [reqs EXCEPT ![r] =
          IF id \notin 1..Len(endorsements) THEN Reject(req, 404)
          ELSE IF endorsements[id].endorser # actor THEN Reject(req, 403)
          ELSE [req EXCEPT !.pc = "deleteEndorsementSave", !.edoc = endorsements[id],
                           !.target = endorsements[id].recipient,
                           !.skill = endorsements[id].skill]]
  /\ Admit(r)
  /\ UNCHANGED <<db, now, mode>>

\* variant: the scores of the endorser are recalculated
DeleteEndorsementsSaveEndorser(r) ==
  /\ reqs[r].pc = "deleteEndorsementSave"
  /\ LET req == reqs[r]
         recipient == req.target
     IN /\ endorsements' = [endorsements EXCEPT ![req.id].isValid = FALSE]
        /\ users' = IF users[recipient] = NoDoc THEN users
                    ELSE [users EXCEPT ![recipient].totalEndorsementsReceived =
                            IF @ - 1 > 0 THEN @ - 1 ELSE 0]
        /\ reqs' = [reqs EXCEPT ![r] =
                      [req EXCEPT !.pc = "recompute", !.target = req.actor, !.ok = 200]]
  /\ UNCHANGED <<skillDocs, challenges, submissions, now, admitted, mode>>

\* isValid is saved, then the recipient is loaded and its counter saved
DeleteEndorsementsSave(r) ==
  /\ reqs[r].pc = "deleteEndorsementSave"
  /\ LET req == reqs[r]
         recipient == req.target
         loaded == req.edoc
         edited == [loaded EXCEPT !.isValid = FALSE]
         modified == {f \in {"isValid"} : edited[f] # loaded[f]}
         hooked == endorsementPreSave(edited, modified, users)
     IN IF hooked = Thrown
        THEN /\ reqs' = [reqs EXCEPT ![r] = Finish(r, 500)]
             /\ UNCHANGED <<users, endorsements>>
        ELSE /\ endorsements' = [endorsements EXCEPT ![req.id] =
                  [@ EXCEPT !.isValid = IF "isValid" \in modified THEN FALSE ELSE @,
                            !.weight = IF hooked # loaded.weight THEN hooked ELSE @]]
             /\ users' = IF users[recipient] = NoDoc THEN users
                         ELSE [users EXCEPT ![recipient].totalEndorsementsReceived =
                                 IF @ - 1 > 0 THEN @ - 1 ELSE 0]
             /\ reqs' = [reqs EXCEPT ![r] = [req EXCEPT !.pc = "recompute", !.ok = 200]]
  /\ UNCHANGED <<skillDocs, challenges, submissions, now, admitted, mode>>

(***************************************************************************)
(* challenges.js: POST /api/challenges/:challengeId/submit                  *)
(***************************************************************************)
PostChallengesSubmit(r, body) ==
  /\ CanArrive(r)
  /\ Len(submissions) < MaxSubs
  /\ LET actor == body.actor
         challengeId == body.challenge
         req == [BlankReq EXCEPT !.kind = "submit", !.actor = actor,
                   !.challenge = challengeId]
         existingSubmissions ==
           CountSeq(submissions,
                    LAMBDA s : s.user = actor /\ s.challenge = challengeId, 1)
     IN reqs' = [reqs EXCEPT ![r] =
          IF challenges[challengeId] = NoDoc THEN Reject(req, 404)
          ELSE [req EXCEPT !.pc = "submitSave", !.count = existingSubmissions]]
  /\ Admit(r)
  /\ UNCHANGED <<db, now, mode>>

\* the submission as the second save (line 224) stores it
GradedSubmission(actor, challengeId, attempt, today) ==
  LET challenge == challenges[challengeId]
      created == SubRec(actor, challengeId, 0, FALSE, FALSE, attempt, today)
      score == IF challenge.testCases > 0
               THEN evaluateTestCases(challenge.testCases) ELSE 0
      isPassed == score >= challenge.passingScore
      graded == [created EXCEPT !.score = score, !.isPassed = isPassed,
                                !.isVerified = isPassed]
      modified == {f \in {"score", "isPassed", "isVerified"} : graded[f] # created[f]}
  IN submissionPreSave(graded, modified)

\* variant: the scores are recalculated whatever the grade
PostChallengesSubmitSaveAlways(r) ==
  /\ reqs[r].pc = "submitSave"
  /\ LET req == reqs[r]
         submission == GradedSubmission(req.actor, req.challenge, req.count + 1, now)
     IN /\ submissions' = Append(submissions, submission)
        /\ users' = [users EXCEPT ![req.actor] =
             [@ EXCEPT !.totalChallengesAttempted = @ + 1,
                       !.totalChallengesPassed =
                          IF submission.isPassed THEN @ + 1 ELSE @]]
        /\ reqs' = [reqs EXCEPT ![r] =
             [req EXCEPT !.pc = "recompute", !.target = req.actor, !.ok = 201]]
  /\ UNCHANGED <<skillDocs, challenges, endorsements, now, admitted, mode>>

PostChallengesSubmitSave(r) ==
  /\ reqs[r].pc = "submitSave"
  /\ LET req == reqs[r]
         submission == GradedSubmission(req.actor, req.challenge, req.count + 1, now)
     IN /\ submissions' = Append(submissions, submission)
        /\ users' = [users EXCEPT ![req.actor] =
             [@ EXCEPT !.totalChallengesAttempted = @ + 1,
                       !.totalChallengesPassed =
                          IF submission.isPassed THEN @ + 1 ELSE @]]
        /\ reqs' = [reqs EXCEPT ![r] =
             IF submission.isPassed
             THEN [req EXCEPT !.pc = "recompute", !.target = req.actor, !.ok = 201]
             ELSE Finish(r, 201)]
  /\ UNCHANGED <<skillDocs, challenges, endorsements, now, admitted, mode>>

(***************************************************************************)
(* skillScoring.js: updateAllSkillScores                                    *)
(***************************************************************************)
\* lines 243-253: load the user, compute every owned skill from the store
UpdateAllSkillScoresLoad(r) ==
  /\ reqs[r].pc = "recompute"
  /\ LET req == reqs[r]
         user == users[req.target]
     IN reqs' = [reqs EXCEPT ![r] =
          IF user = NoDoc THEN Finish(r, req.ok)
          ELSE [req EXCEPT
                  !.pc = "recomputeSave", !.doc = user, !.at = now,
                  !.results = [i \in 1..Len(user.skills) |->
                     calculateSkillCredibility(users, submissions, endorsements,
                        challenges, now, req.target, user.skills[i].skill)]]]
  /\ UNCHANGED <<db, now, admitted, mode>>

\* variant: the new total is added to the stored score
RescoredAdding(skills, results, today) ==
  [i \in 1..Len(skills) |->
     [skills[i] EXCEPT !.credibilityScore =
                          IF @ + results[i].totalScore < 100
                          THEN @ + results[i].totalScore ELSE 100,
                       !.isVerified = results[i].isVerified,
                       !.lastUpdated = today]]

\* variant: lastUpdated is set only on the records whose score changes
RescoredIfChanged(skills, results, today) ==
  [i \in 1..Len(skills) |->
     [skills[i] EXCEPT !.credibilityScore = results[i].totalScore,
                       !.isVerified = results[i].isVerified,
                       !.lastUpdated =
                          IF skills[i].credibilityScore = results[i].totalScore
                          THEN @ ELSE today]]

\* the in-memory skills array after the loop
Rescored(skills, results, today) ==
  [i \in 1..Len(skills) |->
     [skills[i] EXCEPT !.credibilityScore = results[i].totalScore,
                       !.isVerified = results[i].isVerified,
                       !.lastUpdated = today]]

\* variant: the save also resets the counter of endorsements received
SaveScoresResetCounter(stored, rescored, overall) ==
  [stored EXCEPT
     !.skills = [i \in 1..Len(@) |->
        IF i > Len(rescored) THEN @[i]
        ELSE [@[i] EXCEPT !.credibilityScore = rescored[i].credibilityScore,
                          !.isVerified = rescored[i].isVerified,
                          !.lastUpdated = rescored[i].lastUpdated]],
     !.credibilityScore = overall,
     !.totalEndorsementsReceived = 0]

\* what save() writes of the rescored document into the stored one: the
\* paths skills.<i>.* of the records that were loaded
SaveScores(stored, rescored, overall) ==
  [stored EXCEPT
     !.skills = [i \in 1..Len(@) |->
        IF i > Len(rescored) THEN @[i]
        ELSE [@[i] EXCEPT !.credibilityScore = rescored[i].credibilityScore,
                          !.isVerified = rescored[i].isVerified,
                          !.lastUpdated = rescored[i].lastUpdated]],
     !.credibilityScore = overall]

\* variant: the evidence is read again when the scores are saved
UpdateAllSkillScoresSaveFresh(r) ==
  /\ reqs[r].pc = "recomputeSave"
  /\ LET req == reqs[r]
         results == [i \in 1..Len(users[req.target].skills) |->
                       calculateSkillCredibility(users, submissions, endorsements,
                          challenges, now, req.target, users[req.target].skills[i].skill)]
         rescored == Rescored(users[req.target].skills, results, now)
     IN /\ users' = [users EXCEPT ![req.target] =
                       SaveScores(@, rescored, updateCredibilityScore(rescored))]
        /\ reqs' = [reqs EXCEPT ![r] =
                      [Finish(r, req.ok) EXCEPT !.recomputed = req.target]]
  /\ UNCHANGED <<skillDocs, challenges, submissions, endorsements, now, admitted, mode>>

\* lines 255-257: updateCredibilityScore and save.  The modified paths are
\* skills.<i>.{credibilityScore,isVerified,lastUpdated} and credibilityScore;
\* with a positional path save() tests __v
UpdateAllSkillScoresSave(r) ==
  /\ reqs[r].pc = "recomputeSave"
  /\ LET req == reqs[r]
         rescored == Rescored(req.doc.skills, req.results, req.at)
         overall == updateCredibilityScore(rescored)
     IN IF Len(rescored) > 0 /\ users[req.target].ver # req.doc.ver
        THEN /\ reqs' = [reqs EXCEPT ![r] = Finish(r, 500)]
             /\ UNCHANGED users
        ELSE /\ users' = [users EXCEPT ![req.target] = SaveScores(@, rescored, overall)]
             /\ reqs' = [reqs EXCEPT ![r] =
                  [Finish(r, req.ok) EXCEPT !.recomputed = req.target]]
  /\ UNCHANGED <<skillDocs, challenges, submissions, endorsements, now, admitted, mode>>

\* updateAllSkillScores(userId) run on its own against the store: the User
\* collection it leaves behind
updateAllSkillScores(usersColl, today, userId) ==
  IF usersColl[userId] = NoDoc THEN usersColl
  ELSE LET user == usersColl[userId]
           Saved(results) ==
             LET rescored == Rescored(user.skills, results, today)
             IN [usersColl EXCEPT ![userId] =
                   SaveScores(@, rescored, updateCredibilityScore(rescored))]
       IN CHOOSE saved \in
            { Saved(results) : results \in
                { [i \in 1..Len(user.skills) |->
                     calculateSkillCredibility(usersColl, submissions, endorsements,
                        challenges, today, userId, user.skills[i].skill)] } } : TRUE

(***************************************************************************)
(* Time passes between requests                                             *)
(***************************************************************************)
\* res.json(...): the response is sent and the slot is free again
Respond(r) ==
  /\ reqs[r].pc = "done"
  /\ reqs' = [reqs EXCEPT ![r] = BlankReq]
  /\ UNCHANGED <<db, now, admitted, mode>>

Tick ==
  /\ AllIdle
  /\ now + DayStep <= MaxDay
  /\ now' = now + DayStep
  /\ UNCHANGED <<db, reqs, admitted, mode>>

Next ==
  \/ \E r \in Slots, body \in PostUsersSkillsRequests : PostUsersSkills(r, body)
  \/ \E r \in Slots : PostUsersSkillsSave(r)
  \/ \E r \in Slots, body \in PutUsersSkillsRequests : PutUsersSkills(r, body)
  \/ \E r \in Slots : PutUsersSkillsSave(r)
  \/ \E r \in Slots, body \in DeleteUsersSkillsRequests : DeleteUsersSkills(r, body)
  \/ \E r \in Slots : DeleteUsersSkillsSave(r)
  \/ \E r \in Slots, body \in PutUsersProfileRequests : PutUsersProfile(r, body)
  \/ \E r \in Slots : PutUsersProfileSave(r)
  \/ \E r \in Slots, actor \in Actors : GetUsersCredibility(r, actor)
  \/ \E r \in Slots, body \in PostEndorsementsRequests : PostEndorsements(r, body)
  \/ \E r \in Slots : PostEndorsementsSave(r)
  \/ \E r \in Slots, actor \in Actors, id \in 1..(Len(endorsements) + 1),
        body \in PutEndorsementsBodies :
       PutEndorsements(r, actor, id, body)
  \/ \E r \in Slots : PutEndorsementsSave(r)
  \/ \E r \in Slots, actor \in Actors, id \in 1..(Len(endorsements) + 1) :
       DeleteEndorsements(r, actor, id)
  \/ \E r \in Slots : DeleteEndorsementsSave(r)
  \/ \E r \in Slots, body \in PostChallengesSubmitRequests : PostChallengesSubmit(r, body)
  \/ \E r \in Slots : PostChallengesSubmitSave(r)
  \/ \E r \in Slots : UpdateAllSkillScoresLoad(r)
  \/ \E r \in Slots : UpdateAllSkillScoresSave(r)
  \/ \E r \in Slots : Respond(r)
  \/ Tick

Spec == Init /\ [][Next]_vars

(***************************************************************************)
(* Properties                                                               *)
(***************************************************************************)
Existing == {u \in UserIds : users[u] # NoDoc}

\* computeSkillCredibility for every skill a person owns, on the current store
Credibility(u, i) ==
  calculateSkillCredibility(users, submissions, endorsements, challenges, now,
                            u, users[u].skills[i].skill)

\* a request has returned after updateAllSkillScores saved for person p
Recomputed(r, p) == reqs[r].pc = "done" /\ reqs[r].recomputed = p

InRange(q) == QLe(QInt(0), q) /\ QLe(q, QInt(100))

ResultInRange(res) ==
  /\ res.totalScore \in 0..100
  /\ InRange(res.challengeScore)
  /\ InRange(res.endorsementScore)
  /\ InRange(res.proficiencyScore)

\* C1: every score the engine returns or persists lies in [0,100]: the three
\* component scores and the total of computeSkillCredibility, every stored
\* skill credibilityScore, and the overall credibility score (stored, and as
\* calculateOverallCredibility returns it).
C1_ScoresInRange ==
  /\ \A u \in Existing :
       /\ users[u].credibilityScore \in 0..100
       /\ calculateOverallCredibility(users, u) \in 0..100
       /\ \A i \in 1..Len(users[u].skills) :
            /\ users[u].skills[i].credibilityScore \in 0..100
            /\ ResultInRange(Credibility(u, i))
  /\ \A r \in Slots : \A i \in 1..Len(reqs[r].results) :
       ResultInRange(reqs[r].results[i])

C1_Witness ==
  \E u \in Existing : \E i \in 1..Len(users[u].skills) :
    /\ \E r \in Slots : Recomputed(r, u)
    /\ QLt(QInt(0), Credibility(u, i).challengeScore)
    /\ QLt(QInt(0), Credibility(u, i).endorsementScore)
    /\ users[u].skills[i].credibilityScore > 0
    /\ users[u].credibilityScore > 0

\* C2: whenever no request is in progress, each person's stored overall
\* credibility score is the value the aggregation step of the recompute
\* derives from the stored skill records (0 without skills).
C2_OverallConsistent ==
  Quiescent =>
    \A u \in Existing :
      users[u].credibilityScore = updateCredibilityScore(users[u].skills)

\* the overall score as the claim states it: weight = level * (years + 1)
ClaimedWeight(userSkill) ==
  userSkill.proficiencyLevel * (userSkill.yearsOfExperience + 1)
ClaimedWeighted(userSkill) == userSkill.credibilityScore * ClaimedWeight(userSkill)
ClaimedOverall(skills) ==
  IF Len(skills) = 0 THEN 0
  ELSE QRound(Q(SumOver(skills, ClaimedWeighted, 1), SumOver(skills, ClaimedWeight, 1)))

\* C3: right after recomputePersonSkills(p) the stored overall score is
\* round(sum(credibilityScore * weight) / sum(weight)) with
\* weight = proficiencyLevel * (yearsOfExperience + 1), 0 without skills, and
\* calculateOverallCredibility(p) returns the same number.
C3_OverallFormula ==
  \A r \in Slots : \A p \in Existing :
    Recomputed(r, p) =>
      /\ users[p].credibilityScore = ClaimedOverall(users[p].skills)
      /\ users[p].credibilityScore = calculateOverallCredibility(users, p)

\* the scores of person p in a User collection
ScoresOf(usersColl, p) ==
  <<usersColl[p].credibilityScore,
    [i \in 1..Len(usersColl[p].skills) |->
       <<usersColl[p].skills[i].credibilityScore, usersColl[p].skills[i].isVerified>>]>>

RecomputedOnce(p) == updateAllSkillScores(users, now, p)

\* a second run on the store the first run left changes no score of p
SecondRunChangesNothing(p) ==
  \A once \in {RecomputedOnce(p)} :
    \A twice \in {updateAllSkillScores(once, now, p)} :
      ScoresOf(twice, p) = ScoresOf(once, p)

\* C4 (as stated): at a fixed clock and with no evidence change in between,
\* a second recomputePersonSkills(p) leaves every skill score, every
\* isVerified flag and the overall score as the first call left them, from
\* every reachable state.
C4_Idempotent ==
  \A p \in Existing : SecondRunChangesNothing(p)

NoDecayPending(p) ==
  \A i \in 1..Len(users[p].skills) : now - users[p].skills[i].lastUpdated < 90

SelfEndorsed(p) ==
  \E i \in 1..Len(endorsements) :
    /\ endorsements[i].endorser = p
    /\ endorsements[i].recipient = p
    /\ endorsements[i].isValid

\* the save step of updateAllSkillScores stores what the function computes
RecomputeStep ==
  \A r \in Slots :
    (reqs[r].pc = "recomputeSave" /\ reqs'[r].pc = "done" /\ reqs'[r].recomputed # "none")
      => users' = updateAllSkillScores(users, now, reqs[r].target)

\* C4 (amended): the second call changes nothing when, before the first
\* call, every skill of p was updated less than 90 days ago and p holds no
\* valid endorsement given by p.
C4_IdempotentWithoutDecay ==
  /\ [](\A p \in Existing :
          (NoDecayPending(p) /\ ~SelfEndorsed(p))
            => SecondRunChangesNothing(p))
  /\ [][RecomputeStep]_vars

C4_Witness ==
  \E p \in Existing : \E r \in Slots :
    /\ Recomputed(r, p)
    /\ NoDecayPending(p) /\ ~SelfEndorsed(p)
    /\ users[p].credibilityScore > 0
    /\ ScoresOf(RecomputedOnce(p), p) = ScoresOf(users, p)

MissingChallenge(u) ==
  \E i \in 1..Len(submissions) :
    /\ submissions[i].user = u
    /\ submissions[i].isVerified /\ submissions[i].isPassed
    /\ challenges[submissions[i].challenge] = NoDoc

MissingEndorser(u, s) ==
  \E i \in 1..Len(endorsements) :
    /\ endorsements[i].recipient = u /\ endorsements[i].skill = s
    /\ endorsements[i].isValid
    /\ users[endorsements[i].endorser] = NoDoc

\* C5: when a calculator fails (a qualifying submission whose challenge
\* record is missing, a valid endorsement whose endorser record is missing)
\* computeSkillCredibility returns totalScore 0, isVerified false, the three
\* component scores 0 and a diagnostic, and the recompute stores that result.
C5_FailureContained ==
  \A u \in Existing : \A i \in 1..Len(users[u].skills) :
    (MissingChallenge(u) \/ MissingEndorser(u, users[u].skills[i].skill)) =>
      /\ Credibility(u, i).totalScore = 0
      /\ ~Credibility(u, i).isVerified
      /\ Credibility(u, i).challengeScore = QInt(0)
      /\ Credibility(u, i).endorsementScore = QInt(0)
      /\ Credibility(u, i).proficiencyScore = QInt(0)
      /\ Credibility(u, i).error
      /\ (\E r \in Slots : Recomputed(r, u)) =>
            /\ users[u].skills[i].credibilityScore = 0
            /\ ~users[u].skills[i].isVerified

C5_Witness ==
  \E u \in Existing : \E i \in 1..Len(users[u].skills) :
    /\ MissingChallenge(u) \/ MissingEndorser(u, users[u].skills[i].skill)
    /\ \E r \in Slots : Recomputed(r, u)
    /\ QLt(QInt(0), calculateProficiencyScore(users, u, users[u].skills[i].skill))

Succeeded(r) == reqs[r].pc = "done" /\ reqs[r].status \in {200, 201}

\* C6: every successful skill add, update and delete has run
\* recomputePersonSkills for that person before the request completes.
C6_SkillMutationRecomputes ==
  \A r \in Slots :
    (Succeeded(r) /\ reqs[r].kind \in {"postSkill", "putSkill", "deleteSkill"})
      => reqs[r].recomputed = reqs[r].actor

EndorsementKinds == {"postEndorsement", "putEndorsement", "deleteEndorsement"}

\* the endorsement a request is about
Subject(r) ==
  IF reqs[r].kind = "postEndorsement" THEN Len(endorsements) ELSE reqs[r].id

\* the change of request r is in the store
Persisted(r) ==
  LET e == endorsements[Subject(r)]
  IN CASE reqs[r].kind = "deleteEndorsement" -> ~e.isValid
       [] reqs[r].kind = "putEndorsement" ->
            /\ reqs[r].level # "none" => e.level = reqs[r].level
            /\ reqs[r].comment # "none" => e.comment = reqs[r].comment
       [] OTHER -> e.endorser = reqs[r].actor /\ e.isValid

\* C7: every successful endorsement create, update and revoke has run
\* recomputePersonSkills for the recipient of the endorsement before the
\* request completes, and that run starts after the change is stored.
C7_EndorsementMutationRecomputes ==
  \A r \in Slots :
    reqs[r].kind \in EndorsementKinds =>
      /\ Succeeded(r) =>
           /\ reqs[r].recomputed = endorsements[Subject(r)].recipient
           /\ reqs[r].target = endorsements[Subject(r)].recipient
      /\ reqs[r].pc \in {"recompute", "recomputeSave"} =>
           /\ reqs[r].target = endorsements[Subject(r)].recipient
           /\ Persisted(r)

C7_Witness ==
  \E r \in Slots :
    /\ Succeeded(r)
    /\ reqs[r].kind = "deleteEndorsement"
    /\ reqs[r].recomputed = reqs[r].target
    /\ reqs[r].actor # reqs[r].target
    /\ ~endorsements[reqs[r].id].isValid

\* the submission counts as challenge evidence
IsEvidence(sub) == sub.isPassed /\ sub.isVerified

SubmitStep ==
  \A r \in Slots :
    (reqs[r].pc = "submitSave" /\ reqs'[r].pc # "submitSave") =>
      LET sub == submissions'[Len(submissions')]
      IN /\ Len(submissions') = Len(submissions) + 1
         /\ sub.user = reqs[r].actor
         /\ IsEvidence(sub) =>
              reqs'[r].pc = "recompute" /\ reqs'[r].target = reqs[r].actor
         /\ ~IsEvidence(sub) =>
              /\ reqs'[r].pc = "done" /\ reqs'[r].recomputed = "none"
              /\ \A u \in Existing : ScoresOf(users', u) = ScoresOf(users, u)

SubmitDone ==
  \A r \in Slots :
    (Succeeded(r) /\ reqs[r].kind = "submit") =>
      (reqs[r].recomputed = reqs[r].actor <=> IsEvidence(submissions[Len(submissions)]))

\* C8: after a submission is graded, recomputePersonSkills runs for the
\* submitting person exactly when the stored submission is passed and
\* verified; a submission stored as not passed triggers no recompute and
\* changes no score.
C8_RecomputeIffPassed == []SubmitDone /\ [][SubmitStep]_vars

C8_Witness ==
  \E r \in Slots :
    /\ Succeeded(r) /\ reqs[r].kind = "submit"
    /\ reqs[r].recomputed = reqs[r].actor
    /\ \E i \in 1..Len(users[reqs[r].actor].skills) :
         /\ users[reqs[r].actor].skills[i].isVerified
         /\ users[reqs[r].actor].skills[i].credibilityScore > 0

\* the weight of the endorsement weight assigner
AssignedWeight(c) == QMin(QAdd(Q(1, 2), Q(c, 200)), QInt(1))

CreateStep ==
  \A r \in Slots :
    (/\ reqs[r].pc = "postEndorsementSave"
     /\ reqs'[r].pc # "postEndorsementSave"
     /\ WeightValid(reqs[r].weight)) =>
      /\ Len(endorsements') = Len(endorsements) + 1
      /\ endorsements'[Len(endorsements')].weight =
           AssignedWeight(users[reqs[r].actor].credibilityScore)

\* C9: when an endorsement is created its stored weight becomes
\* min(0.5 + c/200, 1), c being the endorser's overall credibility score at
\* that moment, whatever weight the client supplied.
C9_WeightAssigned == [][CreateStep]_vars

\* a step of the kinds the claim lists: a recompute saves, an overall score
\* changes, an endorsement is edited without a weight, or is revoked
SnapshotCase ==
  \/ \E r \in Slots : reqs[r].pc = "recomputeSave" /\ reqs'[r].pc # "recomputeSave"
  \/ \E u \in Existing : users'[u].credibilityScore # users[u].credibilityScore
  \/ \E r \in Slots : /\ reqs[r].pc = "putEndorsementSave"
                      /\ reqs'[r].pc # "putEndorsementSave"
                      /\ reqs[r].weight = NoWeight
  \/ \E r \in Slots : /\ reqs[r].pc = "deleteEndorsementSave"
                      /\ reqs'[r].pc # "deleteEndorsementSave"

\* C10: the stored weight of an existing endorsement is not changed by a
\* recompute, by a change of the endorser's overall score, by an edit of
\* only its level or comment, or by its revocation.
C10_WeightSnapshot ==
  [][SnapshotCase =>
       \A i \in 1..Len(endorsements) :
         /\ i <= Len(endorsements')
         /\ endorsements'[i].weight = endorsements[i].weight]_vars

C10_Witness ==
  \E r \in Slots :
    /\ Succeeded(r) /\ reqs[r].kind = "putEndorsement"
    /\ reqs[r].recomputed = reqs[r].target
    /\ users[reqs[r].actor].credibilityScore > 0
    /\ endorsements[reqs[r].id].level = "beginner"
    /\ endorsements[reqs[r].id].weight #
         AssignedWeight(users[reqs[r].actor].credibilityScore)

\* the Endorsement collection with record id taken out
Without(ends, id) == SubSeq(ends, 1, id - 1) \o SubSeq(ends, id + 1, Len(ends))

\* the Endorsement collection with record id valid again
Revalidated(ends, id) == [ends EXCEPT ![id].isValid = TRUE]

\* no step removes an endorsement record or makes a revoked one valid again
RecordsKept ==
  /\ Len(endorsements') >= Len(endorsements)
  /\ \A i \in 1..Len(endorsements) :
       /\ endorsements'[i].endorser = endorsements[i].endorser
       /\ endorsements'[i].recipient = endorsements[i].recipient
       /\ endorsements'[i].skill = endorsements[i].skill
       /\ ~endorsements[i].isValid => ~endorsements'[i].isValid

\* the save of a revoke marks the record and nothing else of it
RevokeStep ==
  \A r \in Slots :
    (reqs[r].pc = "deleteEndorsementSave" /\ reqs'[r].pc # "deleteEndorsementSave") =>
      endorsements' = [endorsements EXCEPT ![reqs[r].id].isValid = FALSE]

\* the recompute a revoke ends with stores the scores of the evidence
\* without the revoked record
RevokeRecomputeStep ==
  \A r \in Slots :
    (/\ reqs[r].kind = "deleteEndorsement"
     /\ reqs[r].pc = "recomputeSave"
     /\ reqs'[r].pc = "done") =>
      /\ reqs'[r].status = 200
      /\ \A i \in 1..Len(users'[reqs[r].target].skills) :
           users'[reqs[r].target].skills[i].credibilityScore =
             calculateSkillCredibility(users, submissions,
                Without(endorsements, reqs[r].id), challenges, now,
                reqs[r].target, users[reqs[r].target].skills[i].skill).totalScore

\* a revoked record counts for nothing in any endorsementScore
RevokedExcluded ==
  \A id \in 1..Len(endorsements) :
    ~endorsements[id].isValid =>
      \A u \in UserIds : \A sk \in SkillIds :
        calculateEndorsementScore(endorsements, users, u, sk) =
          calculateEndorsementScore(Without(endorsements, id), users, u, sk)

ClaimedTotal(c, e, p, d) ==
  LET weighted == QAdd(QAdd(QMul(c, Q(2, 5)), QMul(e, Q(7, 20))), QMul(p, Q(1, 4)))
      rounded == QRound(QMul(weighted, d))
  IN IF rounded < 0 THEN 0 ELSE IF rounded > 100 THEN 100 ELSE rounded

ClaimedVerified(c, e) == QLe(QInt(30), c) \/ QLe(QInt(40), e)

FollowsRule(res) ==
  /\ res.totalScore = ClaimedTotal(res.challengeScore, res.endorsementScore,
                                   res.proficiencyScore, res.decayFactor)
  /\ res.isVerified = ClaimedVerified(res.challengeScore, res.endorsementScore)

\* the User collection with skill i of person u last updated on day t
UpdatedOn(usersColl, u, i, t) ==
  [usersColl EXCEPT ![u].skills[i].lastUpdated = t]

\* ages of a skill record in days: fresh and fully decayed
DecayAges == {0, 455}

ScoreCalls == {<<"u1", "s1">>, <<"u1", "s2">>, <<"u1", "s9">>, <<"u3", "s1">>}

\* calculateSkillCredibility(userId, skillId) called on its own; the caller
\* keeps the returned breakdown
Score(userId, skillId) ==
  /\ AllIdle
  /\ reqs' = [reqs EXCEPT !["r1"] =
       [BlankReq EXCEPT !.kind = "score", !.pc = "done", !.target = userId,
                        !.skill = skillId, !.at = now, !.status = 200,
                        !.results = <<calculateSkillCredibility(users, submissions,
                                        endorsements, challenges, now, userId, skillId)>>]]
  /\ UNCHANGED <<db, now, admitted, mode>>

\* a day goes by with no request in progress
DayPasses ==
  /\ AllIdle
  /\ now < MaxAge
  /\ now' = now + 1
  /\ UNCHANGED <<db, reqs, admitted, mode>>

\* the rest of the state of a store that is only read
ReadOnlyStore ==
  /\ skillDocs = [s \in SkillIds |-> IF s = "s9" THEN NoDoc ELSE [totalUsers |-> 0]]
  /\ now = 0
  /\ reqs = [r \in Slots |-> BlankReq]
  /\ admitted = 0
  /\ mode = "serial"

\* proficiency levels (1-10) and years of experience a skill record may hold
ProficiencyLevels == {1, 5, 10}
ExperienceYears == {0, 3, 10, 12}

\* the scored person owns s1 and has no other evidence;
\* a second record of the same person, of ten years or more, or none
LongHeldRecords ==
  {<<>>} \cup { <<SkillRec("s2", p, y)>> :
                  p \in ProficiencyLevels, y \in { x \in ExperienceYears : x >= 10 } }

SkillInit ==
  /\ \E p \in ProficiencyLevels, y \in ExperienceYears, more \in LongHeldRecords :
       users = [u \in UserIds |->
                  IF u = "u1"
                  THEN UserSeed(u, <<SkillRec("s1", p, y)>> \o more, <<>>, <<>>)
                  ELSE NoDoc]
  /\ endorsements = <<>>
  /\ submissions = <<>>
  /\ challenges = ChallengeSeed
  /\ ReadOnlyStore

SkillNext ==
  \/ \E call \in ScoreCalls : Score(call[1], call[2])
  \/ Respond("r1")
  \/ DayPasses

SkillSpec == SkillInit /\ [][SkillNext]_vars

\* the decay factor of the scoring rule for whole days t since lastUpdated
ClaimedDecay(t) ==
  IF t < 90 THEN QInt(1)
  ELSE QMax(Q(1, 2), QMin(QSub(QInt(1), Q(t - 90, 730)), QInt(1)))

\* q rounded to three decimals is n/1000
RoundsTo(q, n) == QRound(QMul(q, QInt(1000))) = n

\* the skill record of a direct call, 0 when person or record is absent
RecordOf(userId, skillId) ==
  IF users[userId] = NoDoc THEN 0 ELSE FindSkill(users[userId].skills, skillId)

\* C13: for whole days t since lastUpdated the decay factor is 1 for t < 90,
\* 1 - (t - 90)/730 clamped into [0.5, 1] for t >= 90, non-increasing in t,
\* never below 0.5 and never above 1 (0.575 to three decimals at t = 400, 0.5
\* from t = 455 on), and 1 when the skill record is absent.
C13_DecayFactor ==
  /\ \A call \in ScoreCalls :
       LET k == RecordOf(call[1], call[2])
           d == calculateTimeDecay(users, now, call[1], call[2])
       IN IF k = 0 THEN d = QInt(1)
          ELSE LET t == now - users[call[1]].skills[k].lastUpdated
               IN /\ d = ClaimedDecay(t)
                  /\ t < 90 => d = QInt(1)
                  /\ QLe(Q(1, 2), d) /\ QLe(d, QInt(1))
                  /\ QLe(calculateTimeDecay(users, now + 1, call[1], call[2]), d)
                  /\ t = 400 => RoundsTo(d, 575)
                  /\ t >= 455 => d = Q(1, 2)
  /\ (reqs["r1"].pc = "done" /\ reqs["r1"].kind = "score") =>
       LET k == RecordOf(reqs["r1"].target, reqs["r1"].skill)
       IN reqs["r1"].results[1].decayFactor =
            IF k = 0 THEN QInt(1)
            ELSE ClaimedDecay(reqs["r1"].at - users[reqs["r1"].target].skills[k].lastUpdated)

C13_Witness ==
  /\ reqs["r1"].pc = "done" /\ reqs["r1"].kind = "score"
  /\ reqs["r1"].target = "u1" /\ reqs["r1"].skill = "s1"
  /\ now = 400
  /\ reqs["r1"].results[1].decayFactor = Q(42, 73)

(***************************************************************************)
(* Direct calls on a store where "u1" holds skill s1 and has endorsements   *)
(* from other people                                                        *)
(***************************************************************************)
EndorserNames ==
  <<"e1", "e2", "e3", "e4", "e5", "e6", "e7", "e8", "e9", "e10", "e11", "e12",
    "e13", "e14">>

\* the people who have endorsed, one who has not yet, and one more
Endorsers == {EndorserNames[i] : i \in 1..(MaxEndorsers + 2)}
NextEndorser == EndorserNames[MaxEndorsers + 1]
OtherEndorser == EndorserNames[MaxEndorsers + 2]

\* <<overall credibility of the endorser now, weight stored at write time>>
EndorserProfiles == {<<0, <<1, 2>>>>, <<80, <<9, 10>>>>, <<100, <<1, 1>>>>, <<80, <<1, 2>>>>}

\* a person whose one skill, and so whose overall score, stands at c
EndorserDoc(u, c) ==
  [UserSeed(u, <<[SkillRec("s1", 5, 3) EXCEPT !.credibilityScore = c]>>, <<>>, <<>>)
     EXCEPT !.credibilityScore = c]

\* n endorsements of one level and weight
UniformEndorsements(n, lv, w) ==
  [i \in 1..n |-> EndRec(EndorserNames[i], "u1", "s1", lv, w)]

\* one more endorsement that is unlike the others: of another level and
\* endorser credibility, revoked, or for another skill
OddEndorsements ==
  { <<>>,
    <<EndRec(OtherEndorser, "u1", "s1", "beginner", <<3, 4>>)>>,
    <<[EndRec(OtherEndorser, "u1", "s1", "expert", <<3, 4>>) EXCEPT !.isValid = FALSE]>>,
    <<EndRec(OtherEndorser, "u1", "s2", "expert", <<3, 4>>)>> }

EndorsementInit ==
  /\ \E n \in 0..MaxEndorsers, lv \in Levels, prof \in EndorserProfiles,
        odd \in OddEndorsements :
       /\ endorsements = odd \o UniformEndorsements(n, lv, prof[2])
       /\ users = [u \in {"u1", "u3"} \cup Endorsers |->
                     CASE u = "u1" ->
                            UserSeed(u, <<SkillRec("s1", 5, 3), SkillRec("s2", 5, 3)>>,
                                     odd \o UniformEndorsements(n, lv, prof[2]), <<>>)
                       [] u = "u3" -> NoDoc
                       [] u = OtherEndorser -> EndorserDoc(u, 50)
                       [] OTHER -> EndorserDoc(u, prof[1])]
  /\ submissions = <<>>
  /\ challenges = ChallengeSeed
  /\ ReadOnlyStore

EndorsementNext ==
  \/ \E call \in ScoreCalls : Score(call[1], call[2])
  \/ Respond("r1")

EndorsementSpec == EndorsementInit /\ [][EndorsementNext]_vars

\* the valid endorsements of (u1, s1)
ValidFor(ends, userId, skillId) ==
  SelectSeq(ends, LAMBDA e : e.recipient = userId /\ e.skill = skillId /\ e.isValid)

\* all of them have level lv, weight w and an endorser whose overall is c
AllAlike(ends, lv, w, c) ==
  \A i \in 1..Len(ends) :
    /\ ends[i].level = lv /\ ends[i].weight = w
    /\ users[ends[i].endorser].credibilityScore = c

StoredWeights == {<<1, 2>>, <<3, 4>>, <<9, 10>>, <<1, 1>>}

\* C14: when the valid endorsements of (recipient, skill) all have the same
\* level, weight and endorser credibility, one more valid endorsement of
\* that level, weight and endorser credibility never lowers
\* endorsementScore: it adds 2 while fewer than 10 are present and nothing
\* from then on.
C14_CountMonotone ==
  \A lv \in Levels : \A w \in StoredWeights :
    LET present == ValidFor(endorsements, "u1", "s1")
        c == users[NextEndorser].credibilityScore
        before == calculateEndorsementScore(endorsements, users, "u1", "s1")
        after == calculateEndorsementScore(
                   Append(endorsements, EndRec(NextEndorser, "u1", "s1", lv, w)),
                   users, "u1", "s1")
    IN AllAlike(present, lv, w, c) =>
         /\ QLe(before, after)
         /\ (Len(present) >= 1 /\ Len(present) < 10) => after = QAdd(before, QInt(2))
         /\ Len(present) >= 10 => after = before

C14_Witness ==
  /\ reqs["r1"].pc = "done" /\ reqs["r1"].kind = "score"
  /\ reqs["r1"].target = "u1" /\ reqs["r1"].skill = "s1"
  /\ Len(ValidFor(endorsements, "u1", "s1")) = 10
  /\ AllAlike(ValidFor(endorsements, "u1", "s1"), "expert", <<1, 1>>, 100)
  /\ reqs["r1"].results[1].endorsementScore = QInt(100)

\* the step is the save of updateAllSkillScores for person u
RecomputeSaves(u) ==
  \E r \in Slots :
    /\ reqs[r].pc = "recomputeSave" /\ reqs[r].target = u
    /\ reqs'[r].pc = "done" /\ reqs'[r].recomputed = u

\* C15: a person's stored overall credibility score is written only by the
\* recompute: a step that changes it is the save of updateAllSkillScores
\* for that person; profile updates, skill adds, submission bookkeeping,
\* endorsement counter updates and reads leave it as it is.
C15_OverallWrittenByRecompute ==
  [][\A u \in Existing :
       users'[u].credibilityScore # users[u].credibilityScore => RecomputeSaves(u)]_vars

C15_Witness ==
  \E r \in Slots :
    /\ Succeeded(r) /\ reqs[r].kind = "putProfile"
    /\ users[reqs[r].actor].profile.firstName = "Bea"
    /\ users[reqs[r].actor].credibilityScore > 0

(***************************************************************************)
(* Requests handled at the same time: Node runs the handlers of two         *)
(* requests interleaved at their awaits                                     *)
(***************************************************************************)
\* u2 has endorsed skill s1 of u1
ConcurrentEndorsements == <<EndRec("u2", "u1", "s1", "expert", <<1, 2>>)>>

ConcurrentInit ==
  /\ users = [u \in UserIds |->
                IF u \in Actors
                THEN UserSeed(u, <<SkillRec("s1", 5, 3)>>, ConcurrentEndorsements, <<>>)
                ELSE NoDoc]
  /\ endorsements = ConcurrentEndorsements
  /\ submissions = <<>>
  /\ challenges = ChallengeSeed
  /\ skillDocs = [s \in SkillIds |-> IF s = "s9" THEN NoDoc ELSE [totalUsers |-> 0]]
  /\ now = 0
  /\ reqs = [r \in Slots |-> BlankReq]
  /\ admitted = 0
  /\ mode = "concurrent"

ConcurrentSpec == ConcurrentInit /\ [][Next]_vars

\* the save of a recompute writes the scores of the evidence as it was read
\* when the recompute started; only a change of the skills array stops it
StaleSave ==
  \A r \in Slots :
    (reqs[r].pc = "recomputeSave" /\ reqs'[r].pc = "done") =>
      LET req == reqs[r]
      IN IF Len(req.doc.skills) > 0 /\ users[req.target].ver # req.doc.ver
         THEN reqs'[r].status = 500 /\ users' = users
         ELSE /\ reqs'[r].status = req.ok /\ reqs'[r].recomputed = req.target
              /\ \A i \in 1..Len(req.results) :
                   /\ users'[req.target].skills[i].credibilityScore =
                        req.results[i].totalScore
                   /\ users'[req.target].skills[i].isVerified =
                        req.results[i].isVerified

\* C16: a recompute is not isolated: its save stores the scores it computed
\* from the evidence it read at its start, whatever has been committed since,
\* so that with requests interleaved a state is reached where every request
\* has finished and a person's stored skill score still counts an
\* endorsement whose revocation completed.
C16_RecomputeNotIsolated == [][StaleSave]_vars

\* both requests have completed, one of them the revoke of endorsement id,
\* and the recipient's stored score is the score with the endorsement valid
C16_Witness ==
  /\ Quiescent
  /\ \E r \in Slots : \E q \in Slots \ {r} :
       /\ Succeeded(r) /\ reqs[r].kind = "deleteEndorsement"
       /\ reqs[r].recomputed = reqs[r].target
       /\ Succeeded(q) /\ reqs[q].recomputed = reqs[r].target
       /\ ~endorsements[reqs[r].id].isValid
       /\ LET p == reqs[r].target
              k == FindSkill(users[p].skills, reqs[r].skill)
          IN /\ k # 0
             /\ users[p].skills[k].credibilityScore # Credibility(p, k).totalScore
             /\ users[p].skills[k].credibilityScore =
                  calculateSkillCredibility(users, submissions,
                     Revalidated(endorsements, reqs[r].id), challenges, now,
                     p, reqs[r].skill).totalScore

(***************************************************************************)
(* Direct calls on a store where "u1" holds skills s1 and s2 and there are  *)
(* challenge submissions                                                    *)
(***************************************************************************)
\* the challenges with one of expert difficulty in place of the lost record
ExpertChallenges ==
  [ChallengeSeed EXCEPT !["c0"] = [skill |-> "s1", difficulty |-> "expert",
                                   passingScore |-> 70, testCases |-> 1]]

\* submissions as the Submission collection may hold them; day 0 is the day
\* the calls start, earlier days are negative
SubmissionInputs ==
  { SubRec("u1", "c1", 90, TRUE, TRUE, 1, 0),
    SubRec("u1", "c1", 100, TRUE, TRUE, 1, -100),
    SubRec("u1", "c3", 70, TRUE, TRUE, 1, 0),
    SubRec("u1", "c0", 100, TRUE, TRUE, 1, 0),
    SubRec("u1", "c2", 90, TRUE, TRUE, 1, 0),
    SubRec("u1", "c1", 50, FALSE, TRUE, 1, 0),
    SubRec("u1", "c1", 90, TRUE, FALSE, 1, 0),
    SubRec("u2", "c1", 90, TRUE, TRUE, 1, 0) }

RECURSIVE SubmissionLists(_)
\* the sequences of at most n submissions
SubmissionLists(n) ==
  IF n = 0 THEN {<<>>}
  ELSE LET shorter == SubmissionLists(n - 1)
       IN shorter \cup {Append(l, x) : l \in shorter, x \in SubmissionInputs}

ChallengeInit ==
  /\ \E subs \in SubmissionLists(MaxSubs) :
       /\ submissions = subs
       /\ users = [u \in UserIds |->
                     CASE u = "u1" ->
                            UserSeed(u, <<SkillRec("s1", 5, 3), SkillRec("s2", 5, 3)>>,
                                     <<>>, subs)
                       [] u = "u2" -> UserSeed(u, <<SkillRec("s1", 5, 3)>>, <<>>, subs)
                       [] OTHER -> NoDoc]
  /\ challenges \in {ChallengeSeed, ExpertChallenges}
  /\ endorsements = <<>>
  /\ ReadOnlyStore

ChallengeNext ==
  \/ \E call \in ScoreCalls : Score(call[1], call[2])
  \/ Respond("r1")
  \/ Tick

ChallengeSpec == ChallengeInit /\ [][ChallengeNext]_vars

\* the difficulty multipliers of the scoring rule
ClaimedMultiplier(difficulty) ==
  CASE difficulty = "easy" -> QInt(1)
    [] difficulty = "medium" -> Q(3, 2)
    [] difficulty = "hard" -> QInt(2)
    [] difficulty = "expert" -> QInt(3)

\* the submissions of p that are verified and passed and whose challenge
\* belongs to skill s
Qualifying(subs, chals, p, s) ==
  SelectSeq(subs, LAMBDA x : /\ x.user = p /\ x.isVerified /\ x.isPassed
                             /\ chals[x.challenge] # NoDoc
                             /\ chals[x.challenge].skill = s)

RECURSIVE SumQ(_, _, _)
\* sum of the rationals f(seq[j]) for j = i..Len(seq)
SumQ(seq, f(_), i) ==
  IF i > Len(seq) THEN QInt(0) ELSE QAdd(f(seq[i]), SumQ(seq, f, i + 1))

ClaimedChallengeScore(subs, chals, today, p, s) ==
  LET q == Qualifying(subs, chals, p, s)
      Component(x) ==
        QAdd(QMul(QAdd(QInt(40), QMul(Q(x.score, 100), QInt(30))),
                  ClaimedMultiplier(chals[x.challenge].difficulty)),
             QMul(QMax(QInt(0), QSub(QInt(1), Q(today - x.submittedAt, 365))),
                  QInt(20)))
      Maximum(x) == QMul(QInt(100), ClaimedMultiplier(chals[x.challenge].difficulty))
  IN IF Len(q) = 0 THEN QInt(0)
     ELSE QMin(QInt(100),
               QDiv(QMul(QInt(100), SumQ(q, Component, 1)), SumQ(q, Maximum, 1)))

\* every qualifying submission of p has its challenge record
ChallengesPresent(p) == ~MissingChallenge(p)

\* the challenge score a direct call returns is the one of the scoring rule
ChallengeRuleHolds(userId, skillId) ==
  /\ calculateChallengeScore(submissions, challenges, now, userId, skillId) =
       ClaimedChallengeScore(submissions, challenges, now, userId, skillId)
  /\ (/\ reqs["r1"].pc = "done" /\ reqs["r1"].kind = "score"
      /\ reqs["r1"].target = userId /\ reqs["r1"].skill = skillId) =>
       reqs["r1"].results[1].challengeScore =
         ClaimedChallengeScore(submissions, challenges, reqs["r1"].at, userId, skillId)

\* C17: challengeScore(p, s) is computed only from p's verified and passed
\* submissions whose challenge belongs to s: each adds (40 + (score/100)*30)
\* * multiplier + max(0, 1 - days/365) * 20 to a sum and 100 * multiplier to
\* a maximum; the result is min(100, 100 * sum / maximum), and 0 when there
\* is no such submission.
C17_ChallengeScore ==
  \A call \in ScoreCalls : ChallengeRuleHolds(call[1], call[2])

\* the same where no qualifying submission of p has lost its challenge
ChallengeScoreWhenPresent ==
  \A call \in ScoreCalls :
    ChallengesPresent(call[1]) => ChallengeRuleHolds(call[1], call[2])

\* Scenario A: the only qualifying evidence of u1 for s1 is one verified,
\* passed submission of medium difficulty with score 90, submitted today
ScenarioA ==
  /\ ChallengesPresent("u1")
  /\ LET q == Qualifying(submissions, challenges, "u1", "s1")
     IN /\ Len(q) = 1
        /\ challenges[q[1].challenge].difficulty = "medium"
        /\ q[1].score = 90
        /\ q[1].submittedAt = now

\* C18 (as stated): in Scenario A challengeScore is 100, the cap.
C18_ScenarioACapped ==
  ScenarioA => calculateChallengeScore(submissions, challenges, now, "u1", "s1") = QInt(100)

\* C18 (amended): in Scenario A challengeScore is
\* 100 * ((40 + 27) * 1.5 + 20) / 150 = 241/3, about 80.33, below the cap.
C18_ScenarioA ==
  /\ ScenarioA =>
       /\ calculateChallengeScore(submissions, challenges, now, "u1", "s1") = Q(241, 3)
       /\ QLt(Q(241, 3), QInt(100))
  /\ (/\ ScenarioA
      /\ reqs["r1"].pc = "done" /\ reqs["r1"].kind = "score"
      /\ reqs["r1"].target = "u1" /\ reqs["r1"].skill = "s1"
      /\ reqs["r1"].at = now) =>
       reqs["r1"].results[1].challengeScore = Q(241, 3)

C18_Witness ==
  /\ ScenarioA
  /\ reqs["r1"].pc = "done" /\ reqs["r1"].kind = "score"
  /\ reqs["r1"].target = "u1" /\ reqs["r1"].skill = "s1"
  /\ reqs["r1"].results[1].challengeScore = Q(241, 3)
  /\ reqs["r1"].results[1].isVerified

\* the level values of the scoring rule
ClaimedLevelValue(level) ==
  CASE level = "beginner" -> 1
    [] level = "intermediate" -> 2
    [] level = "advanced" -> 3
    [] level = "expert" -> 4

ClaimedEndorsementScore(ends, usersColl, p, s) ==
  LET v == ValidFor(ends, p, s)
      n == Len(v)
      Level(e) == QInt(ClaimedLevelValue(e.level))
      Weighted(e) == QMul(QInt(usersColl[e.endorser].credibilityScore), e.weight)
  IN IF n = 0 THEN QInt(0)
     ELSE QMin(QInt(100),
               QAdd(QAdd(QMul(QDiv(SumQ(v, Level, 1), QInt(4 * n)), QInt(50)),
                         QMul(QDiv(SumQ(v, Weighted, 1), QInt(100 * n)), QInt(30))),
                    QInt(IF 2 * n < 20 THEN 2 * n ELSE 20)))

\* Scenario B: one valid endorsement, expert, from an endorser whose overall
\* score is 80, stored weight 0.9
ScenarioB ==
  LET v == ValidFor(endorsements, "u1", "s1")
  IN /\ Len(v) = 1
     /\ v[1].level = "expert"
     /\ v[1].weight = Q(9, 10)
     /\ users[v[1].endorser].credibilityScore = 80

DirectCallDone(userId, skillId) ==
  /\ reqs["r1"].pc = "done" /\ reqs["r1"].kind = "score"
  /\ reqs["r1"].target = userId /\ reqs["r1"].skill = skillId

\* C19: endorsementScore(p, s) over the n valid endorsements of (p, s) is
\* min(100, (sum(levelValue)/(4n))*50 + (sum(endorserCredibility * weight)
\* /(100n))*30 + min(2n, 20)), with the endorser's overall score as it is at
\* computation time and the stored weight; it is 0 when n = 0, and 73.6 for
\* one expert endorsement from an endorser of overall 80 with weight 0.9.
C19_EndorsementScore ==
  /\ \A call \in ScoreCalls :
       /\ calculateEndorsementScore(endorsements, users, call[1], call[2]) =
            ClaimedEndorsementScore(endorsements, users, call[1], call[2])
       /\ Len(ValidFor(endorsements, call[1], call[2])) = 0 =>
            calculateEndorsementScore(endorsements, users, call[1], call[2]) = QInt(0)
       /\ DirectCallDone(call[1], call[2]) =>
            reqs["r1"].results[1].endorsementScore =
              ClaimedEndorsementScore(endorsements, users, call[1], call[2])
  /\ ScenarioB =>
       calculateEndorsementScore(endorsements, users, "u1", "s1") = Q(736, 10)

C19_Witness ==
  /\ ScenarioB
  /\ DirectCallDone("u1", "s1")
  /\ reqs["r1"].results[1].endorsementScore = Q(368, 5)

\* the person exists and holds a record for the skill
Holds(userId, skillId) == RecordOf(userId, skillId) # 0

HeldRecord(userId, skillId) == users[userId].skills[RecordOf(userId, skillId)]

\* the proficiency score of the scoring rule for a record
ClaimedProficiencyScore(rec) ==
  QMin(QInt(100),
       QAdd(QAdd(QInt(25), QMul(Q(rec.proficiencyLevel, 10), QInt(50))),
            QMul(Q(IF rec.yearsOfExperience < 10 THEN rec.yearsOfExperience ELSE 10,
                   10),
                 QInt(25))))

\* Scenario C: proficiency level 5 with 3 years of experience
ScenarioC ==
  /\ Holds("u1", "s1")
  /\ HeldRecord("u1", "s1").proficiencyLevel = 5
  /\ HeldRecord("u1", "s1").yearsOfExperience = 3

\* two records of the same level, both of ten years or more
SameLevelLongHeld(a, b) ==
  /\ a.proficiencyLevel = b.proficiencyLevel
  /\ a.yearsOfExperience >= 10 /\ b.yearsOfExperience >= 10

\* C20: proficiencyScore(p, s) is min(100, 25 + (proficiencyLevel/10)*50
\* + (min(yearsOfExperience, 10)/10)*25) for the record p holds for s; two
\* records of the same level with ten years or more each score the same;
\* level 5 with 3 years gives 57.5; the score is 0 when p does not exist or
\* does not own s.
C20_ProficiencyScore ==
  /\ \A call \in ScoreCalls :
       \A score \in {calculateProficiencyScore(users, call[1], call[2])} :
           /\ Holds(call[1], call[2]) =>
                score = ClaimedProficiencyScore(HeldRecord(call[1], call[2]))
           /\ ~Holds(call[1], call[2]) => score = QInt(0)
           /\ DirectCallDone(call[1], call[2]) =>
                reqs["r1"].results[1].proficiencyScore = score
  /\ \A a, b \in ScoreCalls :
       ( /\ Holds(a[1], a[2]) /\ Holds(b[1], b[2])
         /\ SameLevelLongHeld(HeldRecord(a[1], a[2]), HeldRecord(b[1], b[2])) ) =>
         calculateProficiencyScore(users, a[1], a[2]) =
           calculateProficiencyScore(users, b[1], b[2])
  /\ ScenarioC => calculateProficiencyScore(users, "u1", "s1") = Q(575, 10)

C20_Witness ==
  /\ Holds("u1", "s1") /\ Holds("u1", "s2")
  /\ SameLevelLongHeld(HeldRecord("u1", "s1"), HeldRecord("u1", "s2"))
  /\ HeldRecord("u1", "s1").yearsOfExperience # HeldRecord("u1", "s2").yearsOfExperience
  /\ DirectCallDone("u1", "s2")
  /\ reqs["r1"].results[1].proficiencyScore = ClaimedProficiencyScore(HeldRecord("u1", "s1"))

\* the calls of SkillSpec reach Scenario C, a missing person and a skill the
\* person does not own
C20_AbsentReached ==
  /\ ScenarioC
  /\ ~Holds("u3", "s1") /\ ~Holds("u1", "s9")
  /\ DirectCallDone("u3", "s1")
  /\ reqs["r1"].results[1].proficiencyScore = QInt(0)

\* the save step of a run of updateAllSkillScores for the target of slot r
RunSaves(r) == reqs[r].pc = "recomputeSave" /\ reqs'[r].pc = "done"

\* what a run stores for record i of person p, given the result for it
StoredFrom(p, i, res) ==
  /\ users'[p].skills[i].skill = users[p].skills[i].skill
  /\ users'[p].skills[i].credibilityScore = res.totalScore
  /\ users'[p].skills[i].isVerified = res.isVerified
  /\ users'[p].skills[i].lastUpdated = now
  /\ ~res.error =>
       res.decayFactor = ClaimedDecay(now - users[p].skills[i].lastUpdated)

RunStep ==
  \A r \in Slots :
    RunSaves(r) =>
      LET p == reqs[r].target
      IN /\ reqs'[r].recomputed = p
         /\ Len(users'[p].skills) = Len(users[p].skills)
         /\ \A i \in 1..Len(users[p].skills) :
              \A res \in {Credibility(p, i)} : StoredFrom(p, i, res)

\* C21: recomputePersonSkills(p) processes every skill p owns exactly once:
\* for each it overwrites the stored credibilityScore and isVerified with the
\* result of computeSkillCredibility for that skill and sets lastUpdated to
\* the current time, on every run, whether or not any evidence changed; the
\* decay factor of a skill in a run comes from the lastUpdated stored before
\* the run.
C21_RecomputeOverwrites == [][RunStep]_vars

\* a run after an edit of only the comment of an endorsement: no evidence
\* changed, the record was 400 days old, and the run dated it today
C21_Witness ==
  \E r \in Slots :
    /\ Succeeded(r) /\ reqs[r].kind = "putEndorsement"
    /\ Recomputed(r, reqs[r].target)
    /\ endorsements[reqs[r].id].comment = "thanks"
    /\ now = DayStep
    /\ \E i \in 1..Len(users[reqs[r].target].skills) :
         /\ users[reqs[r].target].skills[i].lastUpdated = now
         /\ users[reqs[r].target].skills[i].credibilityScore > 0
         /\ users[reqs[r].target].skills[i].credibilityScore <
              Credibility(reqs[r].target, i).totalScore

\* the stored submission passes exactly at the pass mark of its challenge
GradedByChallenge(sub) ==
  sub.isPassed <=> sub.score >= challenges[sub.challenge].passingScore

\* the save of a submit request stores one submission, graded
GradeStep ==
  \A r \in Slots :
    (reqs[r].pc = "submitSave" /\ reqs'[r].pc # "submitSave") =>
      /\ Len(submissions') = Len(submissions) + 1
      /\ submissions'[Len(submissions')].challenge = reqs[r].challenge
      /\ GradedByChallenge(submissions'[Len(submissions')])

C22_FullMarks ==
  \E i \in 1..Len(submissions) :
    /\ challenges[submissions[i].challenge] # NoDoc
    /\ submissions[i].score = 100 /\ submissions[i].isPassed

\* the stored score and flag of record i of person u are those of the
\* current evidence
StoredIsCurrent(u, i) ==
  \A res \in {Credibility(u, i)} :
    /\ users[u].skills[i].credibilityScore = res.totalScore
    /\ users[u].skills[i].isVerified = res.isVerified

\* the person whose skills or evidence a finished request changed
Changed(r) ==
  IF reqs[r].kind \in {"postSkill", "putSkill", "deleteSkill", "submit"}
  THEN reqs[r].actor ELSE reqs[r].target

\* the people who hold a valid endorsement given by p
EndorsedBy(p) ==
  { endorsements[i].recipient : i \in { j \in 1..Len(endorsements) :
      endorsements[j].endorser = p /\ endorsements[j].isValid } }

\* C23: whenever no request is in progress (clock held fixed) each owned
\* skill's stored credibilityScore and isVerified are what
\* computeSkillCredibility returns from the current evidence, also for a
\* skill that has just been added and for the skills of a recipient after a
\* recompute changed the overall score of one of their endorsers.
C23_StoredIsCurrent ==
  Quiescent =>
    \A r \in Slots :
      (Succeeded(r) /\ reqs[r].kind \in
         {"postSkill", "putSkill", "deleteSkill", "submit"} \cup EndorsementKinds) =>
        \A u \in ({Changed(r)} \cup EndorsedBy(Changed(r))) \cap Existing :
          \A i \in 1..Len(users[u].skills) : StoredIsCurrent(u, i)

\* a user document without the fields a recompute may write
Unscored(doc) ==
  IF doc = NoDoc THEN NoDoc
  ELSE [doc EXCEPT
          !.credibilityScore = 0,
          !.skills = [i \in 1..Len(@) |->
             [@[i] EXCEPT !.credibilityScore = 0, !.isVerified = FALSE,
                          !.lastUpdated = 0]]]

\* a User collection differs from another in nothing but the scores of p
OnlyScoresOf(p, before, after) ==
  /\ \A u \in UserIds \ {p} : after[u] = before[u]
  /\ Unscored(after[p]) = Unscored(before[p])

\* every step of a run of updateAllSkillScores for the target of slot r
RunFrameStep ==
  \A r \in Slots :
    (reqs[r].pc \in {"recompute", "recomputeSave"} /\ reqs'[r] # reqs[r]) =>
      /\ OnlyScoresOf(reqs[r].target, users, users')
      /\ UNCHANGED <<skillDocs, challenges, submissions, endorsements>>

\* the function run on its own, for every person id
RunFrame ==
  \A p \in UserIds :
    \A after \in {updateAllSkillScores(users, now, p)} :
      /\ OnlyScoresOf(p, users, after)
      /\ users[p] = NoDoc => after = users

OfSkillOnly(subs, chals, p, s) ==
  SelectSeq(subs, LAMBDA sub :
    sub.user = p => (chals[sub.challenge] # NoDoc /\ chals[sub.challenge].skill = s))

\* two stores that agree on the evidence of (p, s) give the same result
SameResult(p, s) ==
  \A here \in {calculateSkillCredibility(users, submissions, endorsements,
                                         challenges, now, p, s)} :
    \A there \in {calculateSkillCredibility(users,
                     OfSkillOnly(submissions, challenges, p, s), endorsements,
                     challenges, now, p, s)} :
      /\ here.totalScore = there.totalScore
      /\ here.isVerified = there.isVerified

\* C25: the result of computeSkillCredibility(p, s) depends only on p's
\* record for s, p's verified passed submissions for challenges of s and the
\* valid endorsements for (p, s): it is the same whatever submissions p has
\* for challenges of other skills, a submission whose challenge record no
\* longer exists included.
C25_PerSkillIndependent ==
  \A call \in ScoreCalls : SameResult(call[1], call[2])

\* the same where every qualifying submission of the person has its
\* challenge record
IndependentWhenPresent ==
  \A call \in ScoreCalls :
    (users[call[1]] # NoDoc /\ ChallengesPresent(call[1])) =>
      SameResult(call[1], call[2])

\* the valid endorsements of a triple
ValidOf(ends, endorser, recipient, skillId) ==
  { i \in 1..Len(ends) :
      /\ ends[i].endorser = endorser /\ ends[i].recipient = recipient
      /\ ends[i].skill = skillId /\ ends[i].isValid }

AtMostOneValid ==
  \A a \in Actors : \A u \in UserIds : \A sk \in SkillIds :
    Cardinality(ValidOf(endorsements, a, u, sk)) <= 1

\* a create request that finds a valid endorsement of its triple is turned
\* away with 400 and changes nothing
DuplicateRejected ==
  \A r \in Slots :
    (/\ reqs[r].pc = "idle"
     /\ reqs'[r].kind = "postEndorsement"
     /\ ValidOf(endorsements, reqs'[r].actor, reqs'[r].target, reqs'[r].skill) # {}) =>
      /\ reqs'[r].pc = "done" /\ reqs'[r].status \in {400, 404}
      /\ UNCHANGED db

\* a create request for a triple whose only endorsements are revoked stores
\* a new valid one
CreateAfterRevoke ==
  \A r \in Slots :
    (/\ reqs[r].pc = "postEndorsementSave"
     /\ reqs'[r].pc # "postEndorsementSave"
     /\ WeightValid(reqs[r].weight)
     /\ ValidOf(endorsements, reqs[r].actor, reqs[r].target, reqs[r].skill) = {}
     /\ \E i \in 1..Len(endorsements) :
          /\ endorsements[i].endorser = reqs[r].actor
          /\ endorsements[i].recipient = reqs[r].target
          /\ endorsements[i].skill = reqs[r].skill
          /\ ~endorsements[i].isValid) =>
      Cardinality(ValidOf(endorsements', reqs[r].actor, reqs[r].target,
                          reqs[r].skill)) = 1

\* C26: at most one valid endorsement exists for any (endorser, recipient,
\* skill) in every reachable state, also when requests overlap; a create
\* request that finds a valid endorsement of the triple is rejected and
\* changes nothing; after a revoke the same endorser can create a new one.
C26_OneValidPerTriple ==
  /\ []AtMostOneValid
  /\ [][DuplicateRejected /\ CreateAfterRevoke]_vars

\* the part of C26 the code keeps
OneValidAndDuplicateRejected ==
  /\ []AtMostOneValid
  /\ [][DuplicateRejected]_vars

(***************************************************************************)
(* The requests handled one at a time on a store where u1 holds two skills  *)
(* and u2 has endorsed both.                                                *)
(***************************************************************************)
TwoEndorsements ==
  <<EndRec("u2", "u1", "s1", "expert", <<1, 2>>),
    EndRec("u2", "u1", "s2", "advanced", <<1, 2>>)>>

RevokeInit ==
  /\ users = [u \in UserIds |->
                CASE u = "u1" ->
                       UserSeed(u, <<SkillRec("s1", 10, 0), SkillRec("s2", 1, 12)>>,
                                TwoEndorsements, <<>>)
                  [] u = "u2" -> UserSeed(u, <<SkillRec("s1", 5, 3)>>,
                                          TwoEndorsements, <<>>)
                  [] OTHER -> NoDoc]
  /\ endorsements = TwoEndorsements
  /\ submissions = <<>>
  /\ challenges = ChallengeSeed
  /\ skillDocs = [s \in SkillIds |-> IF s = "s9" THEN NoDoc ELSE [totalUsers |-> 0]]
  /\ now = 0
  /\ reqs = [r \in Slots |-> BlankReq]
  /\ admitted = 0
  /\ mode = "serial"

RevokeSpec == RevokeInit /\ [][Next]_vars

\* the number of valid endorsements a person has received
ValidReceived(u) ==
  Cardinality({ i \in 1..Len(endorsements) :
                  endorsements[i].recipient = u /\ endorsements[i].isValid })

\* C27: after any sequence of completed endorsement create, update and
\* revoke requests each person's totalEndorsementsReceived is the number of
\* valid endorsements whose recipient is that person, and is never negative.
C27_CounterMatches ==
  Quiescent =>
    \A u \in Existing :
      /\ users[u].totalEndorsementsReceived >= 0
      /\ users[u].totalEndorsementsReceived = ValidReceived(u)

\* the counter is never negative, and never above the number of valid
\* endorsements received
CounterWithinValid ==
  \A u \in Existing :
    /\ users[u].totalEndorsementsReceived >= 0
    /\ Quiescent => users[u].totalEndorsementsReceived <= ValidReceived(u)

NoSelfEndorsement ==
  \A i \in 1..Len(endorsements) :
    endorsements[i].endorser # endorsements[i].recipient

\* a create request of a person for one of their own skills is turned away
\* by the route's checks
SelfCreateTurnedAway ==
  \A r \in Slots :
    (/\ reqs[r].pc = "idle"
     /\ reqs'[r].kind = "postEndorsement"
     /\ reqs'[r].actor = reqs'[r].target) =>
      reqs'[r].pc = "done" /\ reqs'[r].status \in {400, 403, 404}

\* the User collection with the overall score of p set to c
WithOverall(usersColl, p, c) == [usersColl EXCEPT ![p].credibilityScore = c]

\* the overall score of p has no part in the endorsementScore of p's skills
OwnScoreStaysOut ==
  \A p \in Existing : \A i \in 1..Len(users[p].skills) :
    \A c \in {0, 100} :
      calculateEndorsementScore(endorsements, WithOverall(users, p, c), p,
                                users[p].skills[i].skill) =
        calculateEndorsementScore(endorsements, users, p, users[p].skills[i].skill)

OwnScoreStaysOutOtherwise == NoSelfEndorsement => OwnScoreStaysOut

\* no request adds a self-endorsement to the store
NoSelfEndorsementAdded ==
  [][\A i \in 1..Len(endorsements') :
       endorsements'[i].endorser = endorsements'[i].recipient =>
         (i <= Len(endorsements) /\ endorsements[i].endorser = endorsements[i].recipient)]_vars

\* a request of slot r, received in this step, to update or revoke an
\* endorsement that does not exist or that another person gave
Unauthorized(r) ==
  /\ reqs[r].pc = "idle"
  /\ reqs'[r].kind \in {"putEndorsement", "deleteEndorsement"}
  /\ \/ reqs'[r].id \notin 1..Len(endorsements)
     \/ endorsements[reqs'[r].id].endorser # reqs'[r].actor

\* it is answered 403 or 404 at once and the store stays as it is
UnauthorizedRejected ==
  \A r \in Slots :
    Unauthorized(r) =>
      /\ reqs'[r].pc = "done"
      /\ reqs'[r].status \in {403, 404}
      /\ reqs'[r].recomputed = "none"
      /\ UNCHANGED db

\* a request answered 403 or 404 has run no recompute
RejectedNotRecomputed ==
  \A r \in Slots :
    (reqs[r].kind \in {"putEndorsement", "deleteEndorsement"}
       /\ reqs[r].status \in {403, 404}) =>
      reqs[r].pc = "done" /\ reqs[r].recomputed = "none"

\* C29: only the endorser of an endorsement can update or revoke it: such a
\* request by any other person, or for an endorsement id that does not
\* exist, is rejected, leaves the endorsement's level, weight and isValid,
\* the recipient's totalEndorsementsReceived and every stored score
\* unchanged, and triggers no recompute.
C29_OnlyEndorserEdits ==
  /\ []RejectedNotRecomputed
  /\ [][UnauthorizedRejected]_vars

C29_Witness ==
  \E r \in Slots :
    /\ reqs[r].pc = "done" /\ reqs[r].kind = "deleteEndorsement"
    /\ reqs[r].status = 403
    /\ endorsements[reqs[r].id].endorser # reqs[r].actor
    /\ endorsements[reqs[r].id].isValid
    /\ users[endorsements[reqs[r].id].recipient].totalEndorsementsReceived > 0

\* an update by another person and a request for an id that does not exist
\* are reached too
C29_OtherCases ==
  \E r \in Slots :
    /\ reqs[r].pc = "done" /\ reqs[r].kind = "putEndorsement"
    /\ \/ reqs[r].status = 404 /\ reqs[r].id = Len(endorsements) + 1
       \/ reqs[r].status = 403 /\ endorsements[reqs[r].id].level # "beginner"

(***************************************************************************)
(* updateAllSkillScores(userId) called on its own (module.exports, lines    *)
(* 282-293) for a person who reports a skill, s1, of any level, experience  *)
(* and age, with and without evidence for it.                               *)
(***************************************************************************)
AllLevels == 1..10

\* days since the record was last updated
RecordAges == {0, 89, 90, MaxAge}

\* Submission collections: none; for a challenge of another skill; not
\* passed; for a challenge whose record is gone; passed and verified for s1
SubmissionChoices ==
  { <<>>,
    <<SubRec("u1", "c2", 90, TRUE, TRUE, 1, 0)>>,
    <<SubRec("u1", "c1", 50, FALSE, FALSE, 1, 0)>>,
    <<SubRec("u1", "c0", 100, TRUE, TRUE, 1, 0)>>,
    <<SubRec("u1", "c1", 90, TRUE, TRUE, 1, 0)>> }

\* Endorsement collections: none; a revoked one; a valid one
EndorsementChoices ==
  { <<>>,
    <<[EndRec("u2", "u1", "s1", "expert", <<9, 10>>) EXCEPT !.isValid = FALSE]>>,
    <<EndRec("u2", "u1", "s1", "expert", <<9, 10>>)>> }

ProficiencyInit ==
  /\ \E p \in AllLevels, y \in ExperienceYears, age \in RecordAges,
        subs \in SubmissionChoices, ends \in EndorsementChoices :
       /\ users = [u \in UserIds |->
            CASE u = "u1" ->
                   UserSeed(u, <<[SkillRec("s1", p, y) EXCEPT !.lastUpdated = 0 - age]>>,
                            ends, subs)
              [] u = "u2" -> [UserSeed(u, <<>>, ends, subs) EXCEPT !.credibilityScore = 80]
              [] OTHER -> NoDoc]
       /\ submissions = subs
       /\ endorsements = ends
  /\ challenges = ChallengeSeed
  /\ ReadOnlyStore

\* the call: lines 243-244 are the first step of UpdateAllSkillScoresLoad
Recompute(userId) ==
  /\ AllIdle
  /\ reqs' = [reqs EXCEPT !["r1"] =
       [BlankReq EXCEPT !.kind = "recompute", !.pc = "recompute",
                        !.target = userId, !.ok = 200]]
  /\ UNCHANGED <<db, now, admitted, mode>>

ProficiencyNext ==
  \/ \E userId \in UserIds : Recompute(userId)
  \/ UpdateAllSkillScoresLoad("r1")
  \/ UpdateAllSkillScoresSave("r1")
  \/ Respond("r1")

ProficiencySpec == ProficiencyInit /\ [][ProficiencyNext]_vars

\* p has no verified passed submission for a challenge of s and no valid
\* endorsement for s
NoEvidence(p, s) ==
  /\ \A i \in 1..Len(submissions) :
       ~( /\ submissions[i].user = p
          /\ submissions[i].isVerified /\ submissions[i].isPassed
          /\ challenges[submissions[i].challenge] # NoDoc
          /\ challenges[submissions[i].challenge].skill = s )
  /\ Len(ValidFor(endorsements, p, s)) = 0

\* a quarter of the scale
Quarter == 100 \div 4

SelfReportOnly(rec) == rec.credibilityScore <= Quarter /\ ~rec.isVerified

\* what a run stores for the skills without evidence
SelfReportStep ==
  \A r \in Slots :
    RunSaves(r) =>
      \A i \in 1..Len(users'[reqs[r].target].skills) :
        NoEvidence(reqs[r].target, users'[reqs[r].target].skills[i].skill) =>
          SelfReportOnly(users'[reqs[r].target].skills[i])

\* C30: self-reported proficiency alone can neither verify a skill nor lift
\* it above a quarter of the scale: for a skill with no verified passed
\* submission for it and no valid endorsement recomputePersonSkills stores
\* isVerified = false and a credibilityScore of at most 25, for every
\* proficiencyLevel in 1..10, every yearsOfExperience >= 0 and every age of
\* lastUpdated.
C30_SelfReportCapped ==
  /\ [](\A u \in Existing : \A i \in 1..Len(users[u].skills) :
          NoEvidence(u, users[u].skills[i].skill) =>
            /\ SelfReportOnly(users[u].skills[i])
            /\ \A res \in {Credibility(u, i)} :
                 res.totalScore <= Quarter /\ ~res.isVerified)
  /\ [][SelfReportStep]_vars

\* a finished run that stored exactly 25 for a level-10 skill of more than
\* ten years, with a submission for another skill and a revoked endorsement
C30_Witness ==
  /\ Recomputed("r1", "u1")
  /\ NoEvidence("u1", "s1")
  /\ Len(submissions) > 0 /\ Len(endorsements) > 0
  /\ users["u1"].skills[1].proficiencyLevel = 10
  /\ users["u1"].skills[1].yearsOfExperience > 10
  /\ users["u1"].skills[1].credibilityScore = Quarter
  /\ ~users["u1"].skills[1].isVerified

\* with evidence for the skill the run stores more than 25, verified
C30_WithEvidence ==
  /\ Recomputed("r1", "u1")
  /\ ~NoEvidence("u1", "s1")
  /\ users["u1"].skills[1].credibilityScore > Quarter
  /\ users["u1"].skills[1].isVerified

====
